---- MODULE Spec2Model ----
(***************************************************************************)
(* Credit-report pipeline: the tree normalizer (xml_to_dict), the report   *)
(* projector (analyze_credit_report, format_loan_details,                  *)
(* parse_payment_history), the DPD decoding used by the analyses, and the  *)
(* batch driver (clean_credit_reports, run_analysis).                      *)
(*                                                                         *)
(* Python values are tagged records [kind, val]:                           *)
(*   str   val = sequence of one-character strings                         *)
(*   dict  val = sequence of <<key, value>> pairs in insertion order       *)
(*   list  val = sequence of values                                        *)
(*   int   val = <<n>>                                                     *)
(*   none  val = <<>>                                                      *)
(*   raise val = <<exception name>>  (an exception leaving the call)       *)
(* Tags, attribute names and dict keys are atomic strings.                 *)
(***************************************************************************)
EXTENDS Integers, Sequences, FiniteSets, TLC

VARIABLES pc, call, arg, ret,
          \* the batch driver (clean_credit_reports, run_analysis): the
          \* encoding and error handler of sys.stdout, loop position, the list being built,
          \* the files of the interim directory, the analysis under way, its
          \* results, and what was handed to the writers
          stdout, position, processed_files, interim, analysis_name, results,
          written

batch ==
    <<stdout, position, processed_files, interim, analysis_name, results, written>>

vars == <<pc, call, arg, ret, batch>>

\* no file processed yet
NoFiles ==
    /\ position = 0
    /\ processed_files = <<>>
    /\ interim = <<>>
    /\ analysis_name = ""
    /\ results = <<>>
    /\ written = <<>>

\* no batch under way
NoBatch == stdout = [encoding |-> "utf-8", errors |-> "strict"] /\ NoFiles

----------------------------------------------------------------------------
(* Python values *)

None == [kind |-> "none", val |-> <<>>]

Str(s) == [kind |-> "str", val |-> s]

Dict(items) == [kind |-> "dict", val |-> items]

List(items) == [kind |-> "list", val |-> items]

IntVal(n) == [kind |-> "int", val |-> <<n>>]

Raise(e) == [kind |-> "raise", val |-> <<e>>]

EmptyDict == Dict(<<>>)

IsRaise(v) == v.kind = "raise"

\* bool(v) for the values the code tests: None, str, dict, list
Truthy(v) == v.kind # "none" /\ Len(v.val) > 0

\* the pairs of items whose key is k, order kept
SelectKeys(items, k) == SelectSeq(items, LAMBDA item : item[1] = k)

HasKey(d, k) == \E i \in 1..Len(d.val) : d.val[i][1] = k

Keys(d) == {d.val[i][1] : i \in 1..Len(d.val)}

\* d[k] for a key that is present
Lookup(d, k) == SelectKeys(d.val, k)[1][2]

\* the position of key k, which is present, in items
KeyIndex(items, k) == CHOOSE i \in 1..Len(items) : items[i][1] = k

\* the items with the value at position i replaced
Replaced(items, i, k, v) ==
    SubSeq(items, 1, i - 1) \o << <<k, v>> >> \o SubSeq(items, i + 1, Len(items))

\* d[k] = v : an existing key keeps its position, a new key goes last
DictSet(d, k, v) ==
    IF HasKey(d, k) THEN Dict(Replaced(d.val, KeyIndex(d.val, k), k, v))
    ELSE Dict(Append(d.val, <<k, v>>))

\* d.update(pairs): the pairs are set in their order, the first half of
\* them before the second
RECURSIVE DictUpdate(_, _)
RECURSIVE UpdatedDict(_, _)
DictUpdate(d, pairs) ==
    IF pairs = <<>> THEN d
    ELSE IF Len(pairs) = 1 THEN DictSet(d, pairs[1][1], pairs[1][2])
    ELSE UpdatedDict(DictUpdate(d, SubSeq(pairs, 1, Len(pairs) \div 2)),
                     SubSeq(pairs, Len(pairs) \div 2 + 1, Len(pairs)))

\* the later pairs are set in what the earlier ones left, which is a dictionary
UpdatedDict(d, pairs) == IF d.kind = "dict" THEN DictUpdate(d, pairs) ELSE d

\* obj[k] in place of obj.get(k, default): a missing key is a KeyError
GetStrict(obj, k, default) ==
    IF IsRaise(obj) THEN obj
    ELSE IF obj.kind # "dict" THEN Raise("AttributeError")
    ELSE IF HasKey(obj, k) THEN Lookup(obj, k)
    ELSE Raise("KeyError")

\* obj.get(k, default): only a dict has .get; an exception already raised
\* while computing obj keeps propagating
Get(obj, k, default) ==
    IF IsRaise(obj) THEN obj
    ELSE IF obj.kind # "dict" THEN Raise("AttributeError")
    ELSE IF HasKey(obj, k) THEN Lookup(obj, k)
    ELSE default

----------------------------------------------------------------------------
(* Strings as character sequences *)

\* the separators U+001C to U+001F: whitespace to str.strip() and
\* str.isspace(), but not to int() and float()
Separators == {"", "", "", ""}

\* what int() and float() drop around a number: tab, newline, vertical tab,
\* form feed, carriage return, space, U+0085, U+00A0 and U+1680.  (The spaces
\* from U+2000 on, which are whitespace to Python as well, cannot be written
\* in a string of this language: U+2000 to U+200A, U+2028, U+2029, U+202F,
\* U+205F, U+3000.)
NumberWhitespace ==
    {"\t", "\n", "", "\f", "\r", " ", "", " ", " "}

\* the characters str.strip() drops: those str.isspace() holds of
Whitespace == NumberWhitespace \cup Separators

\* s from its first character that is not of cs
LStripOf(s, cs) ==
    IF \A k \in 1..Len(s) : s[k] \in cs THEN <<>>
    ELSE SubSeq(s, CHOOSE k \in 1..Len(s) :
                       s[k] \notin cs /\ \A j \in 1..(k - 1) : s[j] \in cs,
                Len(s))

\* s up to its last character that is not of cs
RStripOf(s, cs) ==
    IF \A k \in 1..Len(s) : s[k] \in cs THEN <<>>
    ELSE SubSeq(s, 1, CHOOSE k \in 1..Len(s) :
                          s[k] \notin cs /\ \A j \in (k + 1)..Len(s) : s[j] \in cs)

LStrip(s) == LStripOf(s, Whitespace)

RStrip(s) == RStripOf(s, Whitespace)

\* str.strip()
Strip(s) == RStrip(LStrip(s))

\* the str int() or float() reads, without the whitespace around it
NumberStrip(s) == RStripOf(LStripOf(s, NumberWhitespace), NumberWhitespace)

\* str.replace(c, '') for a character c
Remove(s, c) == SelectSeq(s, LAMBDA x : x # c)

\* index of the first occurrence of character c in s, 0 when there is none
Find(s, c, i) ==
    IF \A k \in i..Len(s) : s[k] # c THEN 0
    ELSE CHOOSE k \in i..Len(s) : s[k] = c /\ \A j \in i..(k - 1) : s[j] # c

\* the fields of a text from those of its two halves: the last field of the
\* first half goes on in the first field of the second
JoinedFields(first, second) ==
    SubSeq(first, 1, Len(first) - 1)
    \o <<first[Len(first)] \o second[1]>>
    \o SubSeq(second, 2, Len(second))

\* str.split(c) for a one-character separator: the fields between separators
RECURSIVE Split(_, _)
Split(s, c) ==
    IF s = <<>> THEN << <<>> >>
    ELSE IF Len(s) = 1 THEN (IF s[1] = c THEN << <<>>, <<>> >> ELSE <<s>>)
    ELSE JoinedFields(Split(SubSeq(s, 1, Len(s) \div 2), c),
                      Split(SubSeq(s, Len(s) \div 2 + 1, Len(s)), c))

----------------------------------------------------------------------------
(* xml.etree elements: tag, attrib (ordered pairs name, str), children, text *)

Element(tag, attrib, children, text) ==
    [tag |-> tag, attrib |-> attrib, children |-> children, text |-> text]

\* lines 9-11: the attributes seed the result
MergeAttribNone(element) == EmptyDict

MergeAttrib(element) ==
    IF Len(element.attrib) > 0
    THEN DictUpdate(EmptyDict, element.attrib)
    ELSE EmptyDict

\* a child replaces whatever the key held
AddChildOverwrite(result, tag, child_data) == DictSet(result, tag, child_data)

\* every child value is wrapped, also the first one under its tag
AddChildAlwaysList(result, tag, child_data) ==
    IF HasKey(result, tag)
    THEN LET old == Lookup(result, tag)
             asList == IF old.kind # "list" THEN List(<<old>>) ELSE old
         IN DictSet(result, tag, List(Append(asList.val, child_data)))
    ELSE DictSet(result, tag, List(<<child_data>>))

\* lines 17-24: one child's value goes under its tag
AddChild(result, tag, child_data) ==
    IF HasKey(result, tag)
    THEN LET old == Lookup(result, tag)
             asList == IF old.kind # "list" THEN List(<<old>>) ELSE old
         IN DictSet(result, tag, List(Append(asList.val, child_data)))
    ELSE DictSet(result, tag, child_data)

\* the text is tested and stored untrimmed
AddTextNoStrip(result, text) ==
    IF Truthy(text)
    THEN IF ~Truthy(result)
         THEN Str(text.val)
         ELSE DictSet(result, "text", Str(text.val))
    ELSE result

\* lines 26-33: the text content
AddText(result, text) ==
    IF Truthy(text) /\ Strip(text.val) # <<>>
    THEN IF ~Truthy(result)
         THEN Str(Strip(text.val))
         ELSE DictSet(result, "text", Str(Strip(text.val)))
    ELSE result

RECURSIVE xml_to_dict(_)
RECURSIVE AddChildren(_, _)
RECURSIVE LaterChildren(_, _)

\* lines 14-24: the loop over the children, in document order: the first
\* half of them, then the second
AddChildren(result, children) ==
    IF children = <<>> THEN result
    ELSE IF Len(children) = 1
    THEN AddChild(result, children[1].tag, xml_to_dict(children[1]))
    ELSE LaterChildren(AddChildren(result, SubSeq(children, 1, Len(children) \div 2)),
                       SubSeq(children, Len(children) \div 2 + 1, Len(children)))

\* the later children are added to what the earlier ones left, which is a
\* dictionary
LaterChildren(result, children) ==
    IF result.kind = "dict" THEN AddChildren(result, children) ELSE result

xml_to_dict(element) ==
    AddText(AddChildren(MergeAttrib(element), element.children), element.text)

----------------------------------------------------------------------------
(* Inputs of the normalizer: generic elements *)

MaxChildren == 2

\* all sequences over S of length at most n
SeqsUpTo(S, n) == UNION {[1..k -> S] : k \in 0..n}

Texts == {None, Str(<<>>), Str(<<"\t", "\n">>), Str(<<" ", "y", "\n">>)}

AttrValue(name) == IF name = "a" THEN Str(<<"p">>)
                   ELSE IF name = "text" THEN Str(<<"q">>)
                   ELSE Str(<<"r">>)

Attribs == { <<>>,
             << <<"a", AttrValue("a")>> >>,
             << <<"text", AttrValue("text")>> >>,
             << <<"a", AttrValue("a")>>, <<"text", AttrValue("text")>> >> }

Tags == {"a", "b", "text"}

GrandChild == Element("b", <<>>, <<>>, Str(<<"w">>))

\* the children a node is given: empty, text only, attribute only,
\* attribute and text, and one with a child of its own
ChildShapes(t) ==
    { Element(t, <<>>, <<>>, None),
      Element(t, <<>>, <<>>, Str(<<"w", " ">>)),
      Element(t, << <<"k", AttrValue("k")>> >>, <<>>, Str(<<" ">>)),
      Element(t, <<>>, <<GrandChild, GrandChild>>, Str(<<"v">>)) }

ChildPool == UNION {ChildShapes(t) : t \in Tags}

\* the elements with at most n children
Elements(n) ==
    { Element("root", at, ch, tx) :
        at \in Attribs, ch \in SeqsUpTo(ChildPool, n), tx \in Texts }

----------------------------------------------------------------------------
(* The normalizer applied to one element *)

InitXml ==
    /\ pc = "ready"
    /\ call = "xml_to_dict"
    /\ arg \in Elements(MaxChildren)
    /\ ret = None
    /\ NoBatch

XmlToDict ==
    /\ pc = "ready"
    /\ call = "xml_to_dict"
    /\ ret' = xml_to_dict(arg)
    /\ pc' = "done"
    /\ UNCHANGED <<call, arg, batch>>

NextXml == XmlToDict

SpecXml == InitXml /\ [][NextXml]_vars

----------------------------------------------------------------------------
(* What the normalizer's claims speak of, read off the element itself *)

AttrNames(e) == {e.attrib[i][1] : i \in 1..Len(e.attrib)}

ChildTags(e) == {e.children[i].tag : i \in 1..Len(e.children)}

AttrOf(e, n) == (CHOOSE i \in 1..Len(e.attrib) : e.attrib[i][1] = n)

\* positions of the children tagged t, and the k-th smallest of them
Tagged(e, t) == {i \in 1..Len(e.children) : e.children[i].tag = t}

Nth(S, k) == CHOOSE i \in S : Cardinality({j \in S : j <= i}) = k

\* the normalized values of the children tagged t, in document order
NormalizedTagged(e, t) ==
    [k \in 1..Cardinality(Tagged(e, t)) |->
        xml_to_dict(e.children[Nth(Tagged(e, t), k)])]

\* what a child key holds when nothing else writes to it: the one child's
\* value, or the list of the values when several children share the tag
ChildValue(e, t) ==
    IF Cardinality(Tagged(e, t)) = 1 THEN NormalizedTagged(e, t)[1]
    ELSE List(NormalizedTagged(e, t))

NonBlank(text) ==
    text.kind = "str" /\ \E i \in 1..Len(text.val) : text.val[i] \notin Whitespace

\* t is s without its leading and trailing whitespace
IsTrimOf(t, s) ==
    \E i, j \in 1..Len(s) :
        /\ i <= j
        /\ t = SubSeq(s, i, j)
        /\ s[i] \notin Whitespace /\ s[j] \notin Whitespace
        /\ \A k \in 1..Len(s) : (k < i \/ k > j) => s[k] \in Whitespace

\* the node's text ends up under "text"
TextWrites(e, n) == n = "text" /\ NonBlank(e.text)

Normalized == pc = "done" /\ call = "xml_to_dict"

\* C1 as stated: where an attribute and a child share a name, the key holds
\* the child's normalized value alone and the attribute's string is gone.
C1_ChildOverwritesAttribute ==
    Normalized =>
        \A n \in AttrNames(arg) \cap ChildTags(arg) :
            /\ ret.kind = "dict"
            /\ HasKey(ret, n)
            /\ Lookup(ret, n) = ChildValue(arg, n)

\* C1 amended: where an attribute and a child share a name, the key holds a
\* list: the attribute's string first, then the normalized values of the
\* same-named children in document order (unless the key is "text" and the
\* node has non-blank text, which then replaces it).
C1_AttributeKeptInList ==
    Normalized =>
        \A n \in AttrNames(arg) \cap ChildTags(arg) :
            /\ ret.kind = "dict"
            /\ HasKey(ret, n)
            /\ ~TextWrites(arg, n) =>
                 Lookup(ret, n) =
                    List(<<arg.attrib[AttrOf(arg, n)][2]>> \o NormalizedTagged(arg, n))

C1_Witness ==
    /\ Normalized
    /\ "a" \in AttrNames(arg)
    /\ Cardinality(Tagged(arg, "a")) = 2
    /\ Len(Lookup(ret, "a").val) = 3

\* C2 as stated: a tag carried by two or more children maps to the list of
\* their normalized values in document order, a tag carried by exactly one
\* child maps to that child's value directly.
C2_RepeatedTagsBecomeLists ==
    Normalized =>
        \A t \in ChildTags(arg) :
            /\ ret.kind = "dict"
            /\ HasKey(ret, t)
            /\ Lookup(ret, t) = ChildValue(arg, t)

\* C2 amended: the same, for every tag that is not also an attribute name of
\* the node and is not "text" on a node with non-blank text.
C2_RepeatedTagsBecomeListsNoClash ==
    Normalized =>
        \A t \in ChildTags(arg) :
            /\ ret.kind = "dict"
            /\ HasKey(ret, t)
            /\ (t \notin AttrNames(arg) /\ ~TextWrites(arg, t)) =>
                 Lookup(ret, t) = ChildValue(arg, t)

C2_Witness ==
    /\ Normalized
    /\ "b" \notin AttrNames(arg)
    /\ Cardinality(Tagged(arg, "b")) = 2
    /\ Cardinality(Tagged(arg, "a")) = 0
    /\ Lookup(ret, "b").kind = "list"
    /\ Len(Lookup(ret, "b").val) = 2
    /\ Lookup(ret, "b").val[1] # Lookup(ret, "b").val[2]

NoCollision(e) == AttrNames(e) \cap ChildTags(e) = {}

\* the key set is the union of attribute names and child tags, attribute
\* keys hold the attribute strings, child keys the normalized children
KeysAreUnion(e, d) ==
    /\ d.kind = "dict"
    /\ Keys(d) = AttrNames(e) \cup ChildTags(e)
    /\ Len(d.val) = Cardinality(AttrNames(e) \cup ChildTags(e))
    /\ \A n \in AttrNames(e) : Lookup(d, n) = e.attrib[AttrOf(e, n)][2]
    /\ \A t \in ChildTags(e) : Lookup(d, t) = ChildValue(e, t)

\* C3 as stated: without attribute/child-tag collisions the result is a
\* mapping whose key set is exactly the union of the attribute names and the
\* child tags, each key holding its source value.
C3_KeysAreUnion ==
    (Normalized /\ NoCollision(arg)) => KeysAreUnion(arg, ret)

\* C3 amended: the same, for a node whose own text is absent or blank.
C3_KeysAreUnionNoText ==
    (Normalized /\ NoCollision(arg) /\ ~NonBlank(arg.text)) =>
        KeysAreUnion(arg, ret)

C3_Witness ==
    /\ Normalized
    /\ NoCollision(arg)
    /\ ~NonBlank(arg.text)
    /\ AttrNames(arg) = {"a", "text"}
    /\ Cardinality(Tagged(arg, "b")) = 2
    /\ Len(ret.val) = 3

\* non-blank text alone is a Leaf; with attributes or children it goes under
\* "text", trimmed
TextKept(e, d) ==
    NonBlank(e.text) =>
        IF e.attrib = <<>> /\ e.children = <<>>
        THEN d.kind = "str" /\ IsTrimOf(d.val, e.text.val)
        ELSE /\ d.kind = "dict"
             /\ HasKey(d, "text")
             /\ Lookup(d, "text").kind = "str"
             /\ IsTrimOf(Lookup(d, "text").val, e.text.val)

\* C4 as stated: non-blank text alone gives the trimmed text, with
\* attributes or children it goes under "text"; absent or blank text never
\* gives a "text" key nor a Leaf, and alone gives the empty mapping.
C4_TextHandling ==
    Normalized =>
        /\ TextKept(arg, ret)
        /\ ~NonBlank(arg.text) =>
              /\ ret.kind = "dict"
              /\ ~HasKey(ret, "text")
              /\ (arg.attrib = <<>> /\ arg.children = <<>>) => ret = EmptyDict

\* C4 amended: as stated, except that a node with absent or blank text has a
\* "text" key exactly when it has an attribute or a child named "text".
C4_TextHandlingUnlessNamedText ==
    Normalized =>
        /\ TextKept(arg, ret)
        /\ ~NonBlank(arg.text) =>
              /\ ret.kind = "dict"
              /\ HasKey(ret, "text") <=>
                    "text" \in AttrNames(arg) \cup ChildTags(arg)
              /\ (arg.attrib = <<>> /\ arg.children = <<>>) => ret = EmptyDict

C4_Witness ==
    /\ Normalized
    /\ arg.text = Str(<<" ", "y", "\n">>)
    /\ arg.attrib # <<>>
    /\ Lookup(ret, "text") = Str(<<"y">>)

----------------------------------------------------------------------------
(* parse_payment_history (format_reports.py 35-55) *)

PaymentRecord(date, status) == [date |-> Str(date), status |-> Str(status)]

\* one entry also counts when it has more than two fields
ParseEntryLoose(entry) ==
    IF Strip(entry) = <<>> THEN <<>>
    ELSE LET fields == Split(entry, ",")
         IN IF Len(fields) >= 2
            THEN <<PaymentRecord(fields[1], fields[2])>>
            ELSE <<>>

\* lines 43-53: the records one entry adds; the unpacking of a split that
\* has not exactly two fields raises ValueError, which is swallowed
ParseEntry(entry) ==
    IF Strip(entry) = <<>> THEN <<>>
    ELSE LET fields == Split(entry, ",")
         IN IF Len(fields) = 2
            THEN <<PaymentRecord(fields[1], fields[2])>>
            ELSE <<>>

\* lines 43-53: the records of the entries, in their order: those of the
\* first half, then those of the second
RECURSIVE ParseEntries(_)
ParseEntries(entries) ==
    IF entries = <<>> THEN <<>>
    ELSE IF Len(entries) = 1 THEN ParseEntry(entries[1])
    ELSE ParseEntries(SubSeq(entries, 1, Len(entries) \div 2))
         \o ParseEntries(SubSeq(entries, Len(entries) \div 2 + 1, Len(entries)))

parse_payment_history(history_str) ==
    IF IsRaise(history_str) THEN history_str
    ELSE IF ~Truthy(history_str) THEN List(<<>>)
    ELSE IF history_str.kind # "str" THEN Raise("AttributeError")
    ELSE List(ParseEntries(Split(history_str.val, "|")))

MaxHistoryLen == 5

HistoryChars == {"|", ",", " ", "\t", "d", "s"}

\* None and the strings of at most n characters
Histories(n) == {None} \cup {Str(s) : s \in SeqsUpTo(HistoryChars, n)}

InitHistory ==
    /\ pc = "ready"
    /\ call = "parse_payment_history"
    /\ arg \in Histories(MaxHistoryLen)
    /\ ret = None
    /\ NoBatch

ParsePaymentHistory ==
    /\ pc = "ready"
    /\ call = "parse_payment_history"
    /\ ret' = parse_payment_history(arg)
    /\ pc' = "done"
    /\ UNCHANGED <<call, arg, batch>>

NextHistory == ParsePaymentHistory

SpecHistory == InitHistory /\ [][NextHistory]_vars

\* the "|"-separated entries of s, by the positions of the separators
Bars(s) == {0, Len(s) + 1} \cup {i \in 1..Len(s) : s[i] = "|"}

EntryAt(s, k) == SubSeq(s, Nth(Bars(s), k) + 1, Nth(Bars(s), k + 1) - 1)

Count(s, c) == Cardinality({i \in 1..Len(s) : s[i] = c})

\* the entries that are not whitespace-only and have exactly one ","
KeptEntries(s) ==
    {k \in 1..(Cardinality(Bars(s)) - 1) :
        /\ \E i \in 1..Len(EntryAt(s, k)) : EntryAt(s, k)[i] \notin Whitespace
        /\ Count(EntryAt(s, k), ",") = 1}

\* C5: parse_payment_history returns, in split order and without
\* deduplication, one record for exactly the "|"-separated entries that are
\* not whitespace-only and split on "," into exactly two fields, with date
\* and status verbatim; every other entry is dropped without raising; an
\* empty or missing raw gives the empty sequence.
C5_PaymentHistoryParsed ==
    (pc = "done" /\ call = "parse_payment_history") =>
        /\ ret.kind = "list"
        /\ ~Truthy(arg) => ret.val = <<>>
        /\ Truthy(arg) =>
              /\ Len(ret.val) = Cardinality(KeptEntries(arg.val))
              /\ \A i \in 1..Len(ret.val) :
                    /\ ret.val[i].date.kind = "str"
                    /\ ret.val[i].status.kind = "str"
                    /\ ret.val[i].date.val \o <<",">> \o ret.val[i].status.val
                          = EntryAt(arg.val, Nth(KeptEntries(arg.val), i))

C5_Witness ==
    /\ pc = "done"
    /\ call = "parse_payment_history"
    /\ arg = Str(<<"s", "|", ",", "|", ",">>)
    /\ ret.val = <<PaymentRecord(<<>>, <<>>), PaymentRecord(<<>>, <<>>)>>

----------------------------------------------------------------------------
(* parse_dpd_code (analyze_dpd.py 5-23, the same text in                   *)
(* analyze_max_dpd_months.py 5-23)                                         *)

\* the decimal digits int() and float() read: those of ASCII, then those of
\* the other scripts that a string of this language can hold (the digits of
\* the remaining scripts, U+0660 and U+0966 among them, cannot be written in
\* one), ten to a row in the order of their values
Digits ==
    <<"0", "1", "2", "3", "4", "5", "6", "7", "8", "9">>
    \o <<"۰", "۱", "۲", "۳", "۴", "۵", "۶", "۷", "۸", "۹">>
    \o <<"߀", "߁", "߂", "߃", "߄", "߅", "߆", "߇", "߈", "߉">>
    \o <<"০", "১", "২", "৩", "৪", "৫", "৬", "৭", "৮", "৯">>
    \o <<"૦", "૧", "૨", "૩", "૪", "૫", "૬", "૭", "૮", "૯">>
    \o <<"௦", "௧", "௨", "௩", "௪", "௫", "௬", "௭", "௮", "௯">>
    \o <<"೦", "೧", "೨", "೩", "೪", "೫", "೬", "೭", "೮", "೯">>
    \o <<"෦", "෧", "෨", "෩", "෪", "෫", "෬", "෭", "෮", "෯">>
    \o <<"໐", "໑", "໒", "໓", "໔", "໕", "໖", "໗", "໘", "໙">>
    \o <<"႐", "႑", "႒", "႓", "႔", "႕", "႖", "႗", "႘", "႙">>
    \o <<"០", "១", "២", "៣", "៤", "៥", "៦", "៧", "៨", "៩">>
    \o <<"᧐", "᧑", "᧒", "᧓", "᧔", "᧕", "᧖", "᧗", "᧘", "᧙">>
    \o <<"᪀", "᪁", "᪂", "᪃", "᪄", "᪅", "᪆", "᪇", "᪈", "᪉">>
    \o <<"᪐", "᪑", "᪒", "᪓", "᪔", "᪕", "᪖", "᪗", "᪘", "᪙">>
    \o <<"᮰", "᮱", "᮲", "᮳", "᮴", "᮵", "᮶", "᮷", "᮸", "᮹">>
    \o <<"꣐", "꣑", "꣒", "꣓", "꣔", "꣕", "꣖", "꣗", "꣘", "꣙">>
    \o <<"꧐", "꧑", "꧒", "꧓", "꧔", "꧕", "꧖", "꧗", "꧘", "꧙">>
    \o <<"꧰", "꧱", "꧲", "꧳", "꧴", "꧵", "꧶", "꧷", "꧸", "꧹">>
    \o <<"꯰", "꯱", "꯲", "꯳", "꯴", "꯵", "꯶", "꯷", "꯸", "꯹">>

IsDigit(c) == \E d \in 1..Len(Digits) : Digits[d] = c

DigitValue(c) == ((CHOOSE d \in 1..Len(Digits) : Digits[d] = c) - 1) % 10

\* the ASCII digit int() and float() read a digit as
AsciiDigit(c) == IF IsDigit(c) THEN Digits[DigitValue(c) + 1] ELSE c

\* the text int() and float() parse: each digit of s as its ASCII digit
DecimalToAscii(s) == [k \in 1..Len(s) |-> AsciiDigit(s[k])]

RECURSIVE DecimalValue(_)
DecimalValue(s) ==
    IF s = <<>> THEN 0
    ELSE 10 * DecimalValue(SubSeq(s, 1, Len(s) - 1)) + DigitValue(s[Len(s)])

\* an underscore of s stands between two digits
UnderscoresBetweenDigits(s) ==
    \A k \in 1..Len(s) :
        s[k] = "_" => /\ k > 1 /\ IsDigit(s[k - 1])
                      /\ k < Len(s) /\ IsDigit(s[k + 1])

AllDigits(s) == \A k \in 1..Len(s) : IsDigit(s[k])

\* s without its leading zeros
DropZeros(s) ==
    IF \A k \in 1..Len(s) : s[k] = "0" THEN <<>>
    ELSE SubSeq(s, CHOOSE k \in 1..Len(s) :
                       s[k] # "0" /\ \A j \in 1..(k - 1) : s[j] = "0",
                Len(s))

\* the most digits int() converts (sys.int_max_str_digits, which nothing in
\* the program changes); leading zeros count
MaxStrDigits == 4300

DigitsInt(digits) ==
    IF digits # <<>> /\ AllDigits(digits) /\ Len(digits) <= MaxStrDigits
    THEN IntVal(DecimalValue(DropZeros(digits)))
    ELSE Raise("ValueError")

UnsignedInt(body) ==
    IF body # <<>> /\ UnderscoresBetweenDigits(body) THEN DigitsInt(Remove(body, "_"))
    ELSE Raise("ValueError")

Negated(n) == IF IsRaise(n) THEN n ELSE IntVal(0 - n.val[1])

SignedInt(t) ==
    IF t # <<>> /\ Head(t) = "-" THEN Negated(UnsignedInt(Tail(t)))
    ELSE IF t # <<>> /\ Head(t) = "+" THEN UnsignedInt(Tail(t))
    ELSE UnsignedInt(t)

\* int(s) on a str: the digits of every script are read as ASCII digits,
\* surrounding whitespace is dropped, one leading sign is accepted, and the
\* rest is digits, single underscores allowed between them; anything else
\* is a ValueError.  (The value is below 2^31.)
PyInt(s) == SignedInt(NumberStrip(DecimalToAscii(s)))

\* lines 7-15
dpd_mapping ==
    { <<<<"X", "X", "X">>, <<"0", "0", "0">>>>,
      <<<<"S", "T", "D">>, <<"0", "0", "0">>>>,
      <<<<"S", "U", "B">>, <<"0", "9", "1">>>>,
      <<<<"D", "B", "T">>, <<"1", "5", "1">>>>,
      <<<<"L", "S", "S">>, <<"1", "8", "1">>>>,
      <<<<"S", "M", "A">>, <<"0", "6", "1">>>>,
      <<<<"D", "D", "D">>, <<"0", "0", "0">>>> }

MappedCodes == {m[1] : m \in dpd_mapping}

Mapped(dpd) == (CHOOSE m \in dpd_mapping : m[1] = dpd)[2]

\* lines 20-23: a symbolic code is mapped, anything else is read as it is
MappedInt(dpd) == IF dpd \in MappedCodes THEN PyInt(Mapped(dpd)) ELSE PyInt(dpd)

\* line 17: dpd, code = status.split('/') takes exactly two fields
UnpackedDpd(parts) ==
    IF Len(parts) # 2 THEN Raise("ValueError") ELSE MappedInt(parts[1])

\* only the text before the first "/" is looked at
parse_dpd_code_first_field(status) == MappedInt(Split(status.val, "/")[1])

parse_dpd_code(status) == UnpackedDpd(Split(status.val, "/"))

MaxDigits == 3

DigitStrings(n) == UNION {[1..k -> {Digits[d] : d \in 1..10}] : k \in 1..n}

\* dpd fields: the symbolic codes, digit strings of at most n digits, digits
\* of another script, others
DpdFields(n) ==
    MappedCodes \cup DigitStrings(n)
    \cup { <<"۴", "۵">>, <<"0", "۴", "0">> }
    \cup { <<>>, <<"A", "B", "C">>, <<"s", "t", "d">>, <<" ", "4", "5">>,
           <<"-", "4">>, <<"4", "X">>, <<"4", "_", "5">>, <<"_", "4">>,
           <<"\t", "4", "\r">>, <<"", "4">> }

\* what follows the dpd field: nothing, "/" and a code field, or two of them
StatusTails ==
    { <<>>, <<"/">>, <<"/", "0", "1">>, <<"/", "0", "1", "/", "0", "2">> }

Statuses(n) == {Str(d \o t) : d \in DpdFields(n), t \in StatusTails}

InitDpd ==
    /\ pc = "ready"
    /\ call = "parse_dpd_code"
    /\ arg \in Statuses(MaxDigits)
    /\ ret = None
    /\ NoBatch

ParseDpdCode ==
    /\ pc = "ready"
    /\ call = "parse_dpd_code"
    /\ ret' = parse_dpd_code(arg)
    /\ pc' = "done"
    /\ UNCHANGED <<call, arg, batch>>

NextDpd == ParseDpdCode

SpecDpd == InitDpd /\ [][NextDpd]_vars

\* the day counts of the symbolic codes, as the specification tabulates them
SymbolicDays(dpd) ==
    CASE dpd \in {<<"X", "X", "X">>, <<"S", "T", "D">>, <<"D", "D", "D">>} -> 0
      [] dpd = <<"S", "M", "A">> -> 61
      [] dpd = <<"S", "U", "B">> -> 91
      [] dpd = <<"D", "B", "T">> -> 151
      [] dpd = <<"L", "S", "S">> -> 181

IsSymbolic(dpd) ==
    dpd \in { <<"X", "X", "X">>, <<"S", "T", "D">>, <<"D", "D", "D">>,
              <<"S", "M", "A">>, <<"S", "U", "B">>, <<"D", "B", "T">>,
              <<"L", "S", "S">> }

IsDigitString(dpd) == dpd # <<>> /\ \A i \in 1..Len(dpd) : IsDigit(dpd[i])

RECURSIVE Pow10(_)
Pow10(n) == IF n = 0 THEN 1 ELSE 10 * Pow10(n - 1)

RECURSIVE SumDigits(_, _)
SumDigits(dpd, i) ==
    IF i > Len(dpd) THEN 0
    ELSE DigitValue(dpd[i]) * Pow10(Len(dpd) - i) + SumDigits(dpd, i + 1)

\* the text before, and after, the one "/" of a status
DpdPart(s) == SubSeq(s, 1, Find(s, "/", 1) - 1)

\* C6: for a status "<dpd>/<code>", parse_dpd_code returns 0 for XXX, STD and
\* DDD, 61 for SMA, 91 for SUB, 151 for DBT, 181 for LSS, and otherwise the
\* integer value of the zero-padded digit string dpd; for a status with no
\* "/" it raises instead of returning a number.
C6_DpdDecoded ==
    (pc = "done" /\ call = "parse_dpd_code") =>
        /\ Count(arg.val, "/") = 0 => IsRaise(ret)
        /\ (Count(arg.val, "/") = 1 /\ IsSymbolic(DpdPart(arg.val))) =>
              ret = IntVal(SymbolicDays(DpdPart(arg.val)))
        /\ (Count(arg.val, "/") = 1 /\ IsDigitString(DpdPart(arg.val))) =>
              ret = IntVal(SumDigits(DpdPart(arg.val), 1))

C6_Witness ==
    /\ pc = "done"
    /\ call = "parse_dpd_code"
    /\ arg = Str(<<"0", "4", "5", "/", "0", "1">>)
    /\ ret = IntVal(45)

----------------------------------------------------------------------------
(***************************************************************************)
(* Python floats.  A float is an IEEE-754 double; the model computes with  *)
(* the exact integers behind it.  A natural number of any size is a        *)
(* sequence of limbs base 2^15, least significant first, without a leading *)
(* zero limb; zero is <<>>.                                                *)
(***************************************************************************)
LimbBits == 15

Base == 2 ^ LimbBits

\* a without its leading zero limbs
Trim(a) ==
    LET used == {k \in 1..Len(a) : a[k] # 0}
    IN IF used = {} THEN <<>>
       ELSE SubSeq(a, 1, CHOOSE k \in used : \A j \in used : j <= k)

RECURSIVE NatOf(_)
NatOf(n) == IF n = 0 THEN <<>> ELSE <<n % Base>> \o NatOf(n \div Base)

RECURSIVE IntOf(_)
IntOf(a) == IF a = <<>> THEN 0 ELSE Head(a) + Base * IntOf(Tail(a))

Limb(a, q) == IF q >= 0 /\ q < Len(a) THEN a[q + 1] ELSE 0

(***************************************************************************)
(* The carry of an addition or a multiplication runs from the lowest limb  *)
(* up, the remainder of a division from the highest limb down.  Each is    *)
(* computed over the limbs lo..hi by halving the range, which keeps the    *)
(* nesting of the evaluation logarithmic in the number of limbs; the       *)
(* result is <<limbs lo..hi of the result, carry out of the range>>.       *)
(***************************************************************************)
RECURSIVE MulCarry(_, _, _, _, _)
MulCarry(a, m, lo, hi, carry) ==
    IF lo > hi THEN << <<>>, carry >>
    ELSE IF lo = hi
    THEN LET t == a[lo] * m + carry IN << <<t % Base>>, t \div Base >>
    ELSE LET mid == (lo + hi) \div 2
             low == MulCarry(a, m, lo, mid, carry)
             high == MulCarry(a, m, mid + 1, hi, low[2])
         IN << low[1] \o high[1], high[2] >>

\* a * m for 0 <= m < 2^16
MulSmall(a, m) ==
    LET r == MulCarry(a, m, 1, Len(a), 0) IN Trim(r[1] \o NatOf(r[2]))

RECURSIVE AddCarry(_, _, _, _, _)
AddCarry(a, b, lo, hi, carry) ==
    IF lo > hi THEN << <<>>, carry >>
    ELSE IF lo = hi
    THEN LET t == Limb(a, lo - 1) + Limb(b, lo - 1) + carry
         IN << <<t % Base>>, t \div Base >>
    ELSE LET mid == (lo + hi) \div 2
             low == AddCarry(a, b, lo, mid, carry)
             high == AddCarry(a, b, mid + 1, hi, low[2])
         IN << low[1] \o high[1], high[2] >>

Add(a, b) ==
    LET r == AddCarry(a, b, 1, IF Len(a) > Len(b) THEN Len(a) ELSE Len(b), 0)
    IN Trim(r[1] \o <<r[2]>>)

RECURSIVE SubBorrow(_, _, _, _, _)
SubBorrow(a, b, lo, hi, borrow) ==
    IF lo > hi THEN << <<>>, borrow >>
    ELSE IF lo = hi
    THEN LET t == a[lo] - Limb(b, lo - 1) - borrow
         IN IF t < 0 THEN << <<t + Base>>, 1 >> ELSE << <<t>>, 0 >>
    ELSE LET mid == (lo + hi) \div 2
             low == SubBorrow(a, b, lo, mid, borrow)
             high == SubBorrow(a, b, mid + 1, hi, low[2])
         IN << low[1] \o high[1], high[2] >>

\* a - b for a >= b
Sub(a, b) == Trim(SubBorrow(a, b, 1, Len(a), 0)[1])

\* -1, 0 or 1 as a < b, a = b or a > b
Cmp(a, b) ==
    IF Len(a) # Len(b) THEN (IF Len(a) < Len(b) THEN 0 - 1 ELSE 1)
    ELSE IF a = b THEN 0
    ELSE LET k == CHOOSE k \in 1..Len(a) :
                      a[k] # b[k] /\ \A j \in (k + 1)..Len(a) : a[j] = b[j]
         IN IF a[k] < b[k] THEN 0 - 1 ELSE 1

\* rem < d is the remainder of the limbs above hi; it is looked at before
\* the limbs lo..hi are, so the higher half is divided before the lower
RECURSIVE DivRem(_, _, _, _, _)
DivRem(a, d, lo, hi, rem) ==
    IF rem >= d \/ lo > hi THEN << <<>>, rem >>
    ELSE IF lo = hi
    THEN LET t == a[lo] + Base * rem IN << <<t \div d>>, t % d >>
    ELSE LET mid == (lo + hi) \div 2
             high == DivRem(a, d, mid + 1, hi, rem)
             low == DivRem(a, d, lo, mid, high[2])
         IN << low[1] \o high[1], low[2] >>

\* <<a \div d, a % d>> for 0 < d < 2^16
DivSmall(a, d) ==
    LET r == DivRem(a, d, 1, Len(a), 0) IN << Trim(r[1]), r[2] >>

BitLen(a) ==
    IF a = <<>> THEN 0
    ELSE LimbBits * (Len(a) - 1)
         + (CHOOSE k \in 1..LimbBits : 2 ^ (k - 1) <= a[Len(a)] /\ a[Len(a)] < 2 ^ k)

Bit(a, p) == (Limb(a, p \div LimbBits) \div 2 ^ (p % LimbBits)) % 2

\* some bit of a below position p is set
AnyBitBelow(a, p) ==
    \E k \in 1..Len(a) :
        /\ LimbBits * (k - 1) < p
        /\ IF LimbBits * k <= p THEN a[k] # 0
           ELSE a[k] % 2 ^ (p - LimbBits * (k - 1)) # 0

\* a \div 2^s for s >= 0
ShiftRight(a, s) ==
    LET n == BitLen(a) - s
        q == s \div LimbBits
        r == s % LimbBits
    IN IF n <= 0 THEN <<>>
       ELSE [j \in 1..((n + LimbBits - 1) \div LimbBits) |->
                Limb(a, q + j - 1) \div 2 ^ r
                + (Limb(a, q + j) % 2 ^ r) * 2 ^ (LimbBits - r)]

\* a * 2^s for s >= 0
ShiftLeft(a, s) ==
    IF a = <<>> THEN <<>>
    ELSE [j \in 1..(s \div LimbBits) |-> 0] \o MulSmall(a, 2 ^ (s % LimbBits))

(***************************************************************************)
(* The float of value (-1)^sign * mantissa * 2^exponent is                 *)
(* [kind |-> "float", sign, mantissa, exponent] in the encoding of the     *)
(* machine: 2^52 <= mantissa < 2^53 for a normal number, a smaller         *)
(* mantissa with exponent -1074 for a subnormal number and for zero; the   *)
(* infinities and nan are classes of their own.                            *)
(***************************************************************************)
MantissaBits == 53

MinExponent == 0 - 1074

MaxBinaryExponent == 1024

Float(sign, mantissa, exponent) ==
    [kind |-> "float", class |-> "finite", sign |-> sign,
     mantissa |-> mantissa, exponent |-> exponent]

Inf(sign) ==
    [kind |-> "float", class |-> "inf", sign |-> sign,
     mantissa |-> <<>>, exponent |-> 0]

NaN ==
    [kind |-> "float", class |-> "nan", sign |-> 0,
     mantissa |-> <<>>, exponent |-> 0]

Zero(sign) == Float(sign, <<>>, MinExponent)

IsNaN(x) == x.class = "nan"

IsInf(x) == x.class = "inf"

IsFinite(x) == x.class = "finite"

\* whether a \div 2^drop is rounded up: by the bit below the cut, and on a
\* tie by the bit above it
RoundsUp(a, drop, sticky) ==
    /\ Bit(a, drop - 1) = 1
    /\ (sticky \/ AnyBitBelow(a, drop - 1) \/ Bit(a, drop) = 1)

\* a / 2^drop as an integer, ties to even
Rounded(a, drop, sticky) ==
    IF drop <= 0 THEN ShiftLeft(a, 0 - drop)
    ELSE IF RoundsUp(a, drop, sticky) THEN Add(ShiftRight(a, drop), <<1>>)
    ELSE ShiftRight(a, drop)

\* the float of mantissa m < 2^53 and exponent e, infinite beyond the range
Packed(sign, m, e) ==
    IF e + MantissaBits > MaxBinaryExponent THEN Inf(sign) ELSE Float(sign, m, e)

\* rounding up may give 2^53, which is 2^52 with the next exponent
Normalized53(sign, m, e) ==
    IF BitLen(m) > MantissaBits THEN Packed(sign, ShiftRight(m, 1), e + 1)
    ELSE Packed(sign, m, e)

\* the exponent of the float that a number of len bits, times 2^e, rounds to
ExponentFor(len, e) ==
    IF e + len - MantissaBits > MinExponent THEN e + len - MantissaBits
    ELSE MinExponent

RoundedAt(sign, a, e, sticky, u) ==
    Normalized53(sign, Rounded(a, u - e, sticky), u)

\* the double nearest to (-1)^sign * (a + f) * 2^e, ties to even, where
\* 0 <= f < 1 and f # 0 exactly if sticky; a has 64 bits or more if sticky
RoundToDouble(sign, a, e, sticky) ==
    IF a = <<>> THEN Zero(sign)
    ELSE RoundedAt(sign, a, e, sticky, ExponentFor(BitLen(a), e))

\* float(n) for an int n below 2^31 in size
FloatOfInt(n) ==
    RoundToDouble(IF n < 0 THEN 1 ELSE 0, NatOf(IF n < 0 THEN 0 - n ELSE n), 0, FALSE)

\* <<sign, size>> of (-1)^sx * a + (-1)^sy * b; a zero sum of opposite signs
\* is +0.0
SignedSum(sx, a, sy, b) ==
    IF sx = sy THEN <<sx, Add(a, b)>>
    ELSE IF Cmp(a, b) = 0 THEN <<0, <<>>>>
    ELSE IF Cmp(a, b) > 0 THEN <<sx, Sub(a, b)>>
    ELSE <<sy, Sub(b, a)>>

RoundedSum(sum, e) == RoundToDouble(sum[1], sum[2], e, FALSE)

\* x + y on finite floats, e the smaller exponent
FiniteAdd(x, y, e) ==
    RoundedSum(SignedSum(x.sign, ShiftLeft(x.mantissa, x.exponent - e),
                         y.sign, ShiftLeft(y.mantissa, y.exponent - e)), e)

\* x + y on floats
FloatAdd(x, y) ==
    IF IsNaN(x) \/ IsNaN(y) THEN NaN
    ELSE IF IsInf(x) THEN (IF IsInf(y) /\ y.sign # x.sign THEN NaN ELSE x)
    ELSE IF IsInf(y) THEN y
    ELSE FiniteAdd(x, y, IF x.exponent < y.exponent THEN x.exponent ELSE y.exponent)

\* x * m on a float x and an int 0 < m < 2^16
FloatMulSmall(x, m) ==
    IF ~IsFinite(x) THEN x
    ELSE RoundToDouble(x.sign, MulSmall(x.mantissa, m), x.exponent, FALSE)

QuotientBits == 90

\* a quotient <<q, r>> as <<q, whether a remainder was lost, now or before>>
DivLost(h, lost) == <<h[1], lost \/ h[2] # 0>>

\* the float of <<q, whether a remainder was lost>>, the quotient of a
\* division scaled by 2^bits
RoundedQuotient(sign, h, bits) == RoundToDouble(sign, h[1], 0 - bits, h[2])

\* n / d on ints 0 <= n < 2^31, 0 < d < 2^16: the quotient correctly rounded
TrueDiv(n, d) ==
    RoundedQuotient(0, DivLost(DivSmall(ShiftLeft(NatOf(n), QuotientBits), d), FALSE),
                    QuotientBits)

\* v / 2^s as an int, ties to even
RoundedInt(v, s) ==
    IF s <= 0 THEN IntOf(ShiftLeft(v, 0 - s))
    ELSE IF Bit(v, s - 1) = 1 /\ (AnyBitBelow(v, s - 1) \/ Bit(v, s) = 1)
    THEN IntOf(ShiftRight(v, s)) + 1
    ELSE IntOf(ShiftRight(v, s))

\* round(x, 2) of a finite float 0 <= x < 2^15, in hundredths: the multiple
\* of 0.01 nearest to the exact value of x, ties to even
RoundHundredths(x) == RoundedInt(MulSmall(x.mantissa, 100), 0 - x.exponent)

(***************************************************************************)
(* float(s) on a str: the digits of every script are read as ASCII digits, *)
(* surrounding whitespace is dropped, an underscore may stand between two  *)
(* digits, and the rest is a sign and inf, infinity or nan in any case, or *)
(* a decimal number with an optional fraction and exponent; the value is   *)
(* the double nearest to the decimal number.                               *)
(***************************************************************************)
Matches(s, word) == Len(s) = Len(word) /\ \A k \in 1..Len(s) : s[k] \in word[k]

InfWord == << {"i", "I"}, {"n", "N"}, {"f", "F"} >>

InfinityWord ==
    InfWord \o << {"i", "I"}, {"n", "N"}, {"i", "I"}, {"t", "T"}, {"y", "Y"} >>

NanWord == << {"n", "N"}, {"a", "A"}, {"n", "N"} >>

\* the first position of s holding a character of cs, or Len(s) + 1
FirstOf(s, cs) ==
    IF \E k \in 1..Len(s) : s[k] \in cs
    THEN CHOOSE k \in 1..Len(s) : s[k] \in cs /\ \A j \in 1..(k - 1) : s[j] \notin cs
    ELSE Len(s) + 1

\* a * 10^x: up to four powers at once, more as one half of them after
\* the other
RECURSIVE MulPow10(_, _)
MulPow10(a, x) ==
    IF a = <<>> \/ x = 0 THEN a
    ELSE IF x <= 4 THEN MulSmall(a, 10 ^ x)
    ELSE MulPow10(MulPow10(a, x \div 2), x - x \div 2)

\* the number written by the digits s: the two halves put together
RECURSIVE NatOfDigits(_)
NatOfDigits(s) ==
    IF Len(s) <= 4 THEN NatOf(DecimalValue(s))
    ELSE Add(MulPow10(NatOfDigits(SubSeq(s, 1, Len(s) \div 2)),
                      Len(s) - Len(s) \div 2),
             NatOfDigits(SubSeq(s, Len(s) \div 2 + 1, Len(s))))

\* <<a \div 10^x, whether a remainder was lost>>: up to four powers at
\* once, more as one half of them after the other
RECURSIVE DivPow10(_, _)
DivPow10(h, x) ==
    IF h[1] = <<>> \/ x = 0 THEN h
    ELSE IF x <= 4 THEN DivLost(DivSmall(h[1], 10 ^ x), h[2])
    ELSE DivPow10(DivPow10(h, x \div 2), x - x \div 2)

\* s without its trailing zeros
DropLastZeros(s) ==
    IF \A k \in 1..Len(s) : s[k] = "0" THEN <<>>
    ELSE SubSeq(s, 1, CHOOSE k \in 1..Len(s) :
                          s[k] # "0" /\ \A j \in (k + 1)..Len(s) : s[j] = "0")

\* numbers of this many digits before the point or more are infinite, and
\* those with this many zeros after it or more are zero
MaxDecimalExponent == 310

MinDecimalExponent == 0 - 330

\* a written exponent of more digits, or beyond MaxAbsExponent, counts as
\* MaxAbsExponent: no text has digits enough to make up for it
MaxExponentDigits == 9

MaxAbsExponent == 1100000000

GuardBits == 64

\* d * 10^x for x < 0 as a quotient scaled by 2^bits, which leaves it 64
\* bits or more
ScaledQuotient(sign, d, x, bits) ==
    RoundedQuotient(sign, DivPow10(<<ShiftLeft(NatOfDigits(d), bits), FALSE>>, 0 - x),
                    bits)

\* the double nearest to (-1)^sign * d * 10^x, d without leading zeros
ScaledDecimal(sign, d, x) ==
    IF d = <<>> THEN Zero(sign)
    ELSE IF x + Len(d) > MaxDecimalExponent THEN Inf(sign)
    ELSE IF x + Len(d) < MinDecimalExponent THEN Zero(sign)
    ELSE IF x >= 0 THEN RoundToDouble(sign, MulPow10(NatOfDigits(d), x), 0, FALSE)
    ELSE ScaledQuotient(sign, d, x, GuardBits + 4 * (0 - x))

\* d * 10^x from the digits of d up to its last digit that is not zero
SignificantDecimal(sign, d, significant, x) ==
    ScaledDecimal(sign, significant, x + (Len(d) - Len(significant)))

WithoutLastZeros(sign, d, x) == SignificantDecimal(sign, d, DropLastZeros(d), x)

\* the double nearest to (-1)^sign * digits * 10^x
DecimalToDouble(sign, digits, x) == WithoutLastZeros(sign, DropZeros(digits), x)

\* the value of the digits of an exponent, written without leading zeros
ExponentSize(d) ==
    IF Len(d) > MaxExponentDigits \/ DecimalValue(d) > MaxAbsExponent
    THEN MaxAbsExponent
    ELSE DecimalValue(d)

\* the value of a written exponent; none is 0
ExponentValue(s) ==
    IF s = <<>> THEN 0
    ELSE IF Head(s) = "-" THEN 0 - ExponentSize(DropZeros(Tail(s)))
    ELSE IF Head(s) = "+" THEN ExponentSize(DropZeros(Tail(s)))
    ELSE ExponentSize(DropZeros(s))

\* a sign, if any, and one digit or more
IsExponent(s) ==
    IF s # <<>> /\ Head(s) \in {"+", "-"}
    THEN Len(s) > 1 /\ AllDigits(Tail(s))
    ELSE s # <<>> /\ AllDigits(s)

\* digits, a point or none, digits; a digit on one side at least
DecimalParts(sign, whole, fraction, x) ==
    IF AllDigits(whole) /\ AllDigits(fraction) /\ Len(whole) + Len(fraction) > 0
    THEN DecimalToDouble(sign, whole \o fraction, x - Len(fraction))
    ELSE Raise("ValueError")

\* the number before the exponent, cut at its first point
DecimalNumber(sign, number, dot, x) ==
    DecimalParts(sign, SubSeq(number, 1, dot - 1),
                 SubSeq(number, dot + 1, Len(number)), x)

\* number, then "e" or "E" and an exponent, or nothing
WithExponent(sign, number, marked, exponent) ==
    IF marked /\ ~IsExponent(exponent) THEN Raise("ValueError")
    ELSE DecimalNumber(sign, number, FirstOf(number, {"."}), ExponentValue(exponent))

\* a decimal number, e the place of its first "e" or "E"
DecimalFloat(sign, body, e) ==
    WithExponent(sign, SubSeq(body, 1, e - 1), e <= Len(body),
                 SubSeq(body, e + 1, Len(body)))

UnsignedFloat(sign, body) ==
    IF Matches(body, InfWord) \/ Matches(body, InfinityWord) THEN Inf(sign)
    ELSE IF Matches(body, NanWord) THEN NaN
    ELSE DecimalFloat(sign, body, FirstOf(body, {"e", "E"}))

SignedFloat(u) ==
    IF u # <<>> /\ Head(u) = "-" THEN UnsignedFloat(1, Tail(u))
    ELSE IF u # <<>> /\ Head(u) = "+" THEN UnsignedFloat(0, Tail(u))
    ELSE UnsignedFloat(0, u)

StrippedFloat(t) ==
    IF UnderscoresBetweenDigits(t) THEN SignedFloat(Remove(t, "_"))
    ELSE Raise("ValueError")

PyFloat(s) == StrippedFloat(NumberStrip(DecimalToAscii(s)))

----------------------------------------------------------------------------
(* The DPD analyses over one interim document.  A dict of fixed keys built  *)
(* by a dict literal is a record wrapped as [kind |-> "record"].            *)

Record(r) == [kind |-> "record", val |-> r]

\* what a loop collects over a run of items and then over the run after it:
\* the exception that ends it in the first run, else the one of the second
Chained(first, second) ==
    IF IsRaise(first) THEN first
    ELSE IF IsRaise(second) THEN second
    ELSE List(first.val \o second.val)

\* analyze_dpd.py 29-34 and analyze_max_dpd_months.py 31-37: the month of a
\* payment, if its DPD is 30 or more, before those of the later payments
DpdMonth(payment, dpd, rest) ==
    IF IsRaise(dpd) THEN dpd
    ELSE IF IsRaise(rest) THEN rest
    ELSE List((IF dpd.val[1] >= 30
               THEN <<[date |-> payment.date, dpd |-> dpd.val[1]]>>
               ELSE <<>>) \o rest.val)

\* analyze_dpd.py 25-35 and analyze_max_dpd_months.py 30-37: the months with
\* 30+ DPD of a payment history, or the exception of the first status that
\* does not decode
RECURSIVE DpdMonths(_)
DpdMonths(payments) ==
    IF payments = <<>> THEN List(<<>>)
    ELSE IF Len(payments) = 1
    THEN DpdMonth(payments[1], parse_dpd_code(payments[1].status), List(<<>>))
    ELSE Chained(DpdMonths(SubSeq(payments, 1, Len(payments) \div 2)),
                 DpdMonths(SubSeq(payments, Len(payments) \div 2 + 1, Len(payments))))

has_30plus_dpd(loan) == DpdMonths(loan.payment_history.val)

\* analyze_dpd.py 44-49: the detail of a loan before those of the later loans
DpdLoanDetail(loan, dpd_months, rest) ==
    IF IsRaise(dpd_months) THEN dpd_months
    ELSE IF IsRaise(rest) THEN rest
    ELSE List(<<[type |-> loan.account_type,
                 status |-> loan.status,
                 dpd_months |-> dpd_months.val,
                 has_30plus_dpd |-> Len(dpd_months.val) > 0]>>
              \o rest.val)

\* analyze_dpd.py 42-49
RECURSIVE DpdLoanDetails(_)
DpdLoanDetails(loans) ==
    IF loans = <<>> THEN List(<<>>)
    ELSE IF Len(loans) = 1
    THEN DpdLoanDetail(loans[1], has_30plus_dpd(loans[1]), List(<<>>))
    ELSE Chained(DpdLoanDetails(SubSeq(loans, 1, Len(loans) \div 2)),
                 DpdLoanDetails(SubSeq(loans, Len(loans) \div 2 + 1, Len(loans))))

\* round(n / d * 100, 2) in hundredths of a percent: the quotient and the
\* product are floats, and round() takes the multiple of 0.01 nearest to the
\* float it is given
PercentX100(n, d) == RoundHundredths(FloatMulSmall(TrueDiv(n, d), 100))

\* analyze_dpd.py 51
TradesWith30Plus(loan_details) ==
    Cardinality({i \in 1..Len(loan_details) : loan_details[i].has_30plus_dpd})

\* analyze_dpd.py 52-59; percentage is kept in hundredths of a percent
DpdStatistics(total_trades, trades_with_30plus_dpd, loan_details) ==
    Record([total_trades |-> total_trades,
            trades_with_30plus_dpd |-> trades_with_30plus_dpd,
            percentage_x100 |->
                IF total_trades > 0
                THEN PercentX100(trades_with_30plus_dpd, total_trades)
                ELSE 0,
            loan_details |-> loan_details])

\* analyze_dpd.py 51-59, or the exception of the loop before them
DpdResult(total_trades, loan_details) ==
    IF IsRaise(loan_details) THEN loan_details
    ELSE DpdStatistics(total_trades, TradesWith30Plus(loan_details.val),
                       loan_details.val)

\* analyze_dpd.py 37-59
analyze_customer_dpd(data) ==
    DpdResult(Len(data.loans), DpdLoanDetails(data.loans))

\* analyze_max_dpd_months.py 39-42
DpdCount(dpd_months) ==
    IF IsRaise(dpd_months) THEN dpd_months
    ELSE Record([count |-> Len(dpd_months.val), dpd_months |-> dpd_months.val])

\* analyze_max_dpd_months.py 25-42
count_30plus_dpd_months(loan) == DpdCount(DpdMonths(loan.payment_history.val))

\* analyze_max_dpd_months.py 51-56: the counts of a loan before those of the
\* later loans
LoanDpdCount(loan, dpd_info, rest) ==
    IF IsRaise(dpd_info) THEN dpd_info
    ELSE IF IsRaise(rest) THEN rest
    ELSE List(<<[type |-> loan.account_type,
                 disbursed_date |-> loan.disbursed_date,
                 dpd_count |-> dpd_info.val.count,
                 dpd_months |-> dpd_info.val.dpd_months]>>
              \o rest.val)

\* analyze_max_dpd_months.py 49-56
RECURSIVE LoanDpdCounts(_)
LoanDpdCounts(loans) ==
    IF loans = <<>> THEN List(<<>>)
    ELSE IF Len(loans) = 1
    THEN LoanDpdCount(loans[1], count_30plus_dpd_months(loans[1]), List(<<>>))
    ELSE Chained(LoanDpdCounts(SubSeq(loans, 1, Len(loans) \div 2)),
                 LoanDpdCounts(SubSeq(loans, Len(loans) \div 2 + 1, Len(loans))))

Max(a, b) == IF a >= b THEN a ELSE b

\* analyze_max_dpd_months.py 46 and 58: max_dpd_months = 0, then
\* max(max_dpd_months, dpd_info['count']) in each turn of the loop
RECURSIVE MaxCount(_)
MaxCount(counts) ==
    IF counts = <<>> THEN 0
    ELSE IF Len(counts) = 1 THEN Max(0, counts[1].dpd_count)
    ELSE Max(MaxCount(SubSeq(counts, 1, Len(counts) \div 2)),
             MaxCount(SubSeq(counts, Len(counts) \div 2 + 1, Len(counts))))

\* analyze_max_dpd_months.py 46 and 58-63, or the exception of the loop before them
MaxDpdResult(loan_dpd_counts) ==
    IF IsRaise(loan_dpd_counts) THEN loan_dpd_counts
    ELSE Record([max_dpd_months |-> MaxCount(loan_dpd_counts.val),
                 loan_details |-> loan_dpd_counts.val])

\* analyze_max_dpd_months.py 44-63
analyze_customer_max_dpd_months(data) == MaxDpdResult(LoanDpdCounts(data.loans))

----------------------------------------------------------------------------
(* Inputs of the analyses: interim documents as json.load returns them *)

MaxLoans == 2

MaxPayments == 2

\* statuses decoding to 30, to 29, and one without "/"
AnalysisStatuses ==
    { <<"0", "3", "0", "/", "0", "0">>,
      <<"0", "2", "9", "/", "0", "0">>,
      <<"b", "a", "d">> }

AnalysisHistories(np) ==
    { [i \in 1..Len(h) |-> PaymentRecord(<<"m", Digits[i + 1]>>, h[i])] :
        h \in SeqsUpTo(AnalysisStatuses, np) }

AnalysisLoan(history) ==
    [ account_type |-> Str(<<"t">>), status |-> Str(<<"A">>),
      amount |-> Str(<<"1", "0">>), current_balance |-> None,
      disbursed_date |-> Str(<<"d">>), closed_date |-> None,
      security_status |-> None, payment_history |-> List(history) ]

EmptyHeader ==
    [ report_date |-> None,
      credit_score |-> [value |-> None, type |-> None, comments |-> None],
      summary |-> [ total_accounts |-> None, active_accounts |-> None,
                    overdue_accounts |-> None, total_balance |-> None,
                    credit_history_years |-> None, recent_inquiries |-> None ] ]

Document(header, loans) ==
    [ report_date |-> header.report_date,
      credit_score |-> header.credit_score,
      summary |-> header.summary,
      loans |-> loans ]

\* documents of at most nl loans with at most np payments each
AnalysisDocuments(nl, np) ==
    { Document(EmptyHeader, [i \in 1..Len(hs) |-> AnalysisLoan(hs[i])]) :
        hs \in SeqsUpTo(AnalysisHistories(np), nl) }

InitAnalysis ==
    /\ pc = "ready"
    /\ call = "analysis"
    /\ arg \in AnalysisDocuments(MaxLoans, MaxPayments)
    /\ ret = None
    /\ NoBatch

AnalyzeCustomerDpd ==
    /\ pc = "ready"
    /\ call = "analysis"
    /\ call' = "analyze_customer_dpd"
    /\ ret' = analyze_customer_dpd(arg)
    /\ pc' = "done"
    /\ UNCHANGED <<arg, batch>>

AnalyzeCustomerMaxDpdMonths ==
    /\ pc = "ready"
    /\ call = "analysis"
    /\ call' = "analyze_customer_max_dpd_months"
    /\ ret' = analyze_customer_max_dpd_months(arg)
    /\ pc' = "done"
    /\ UNCHANGED <<arg, batch>>

NextAnalysis == AnalyzeCustomerDpd \/ AnalyzeCustomerMaxDpdMonths

SpecAnalysis == InitAnalysis /\ [][NextAnalysis]_vars

\* the payment entries of the document whose status has no "/"
BadEntries(data) ==
    UNION { { <<i, j>> : j \in { k \in 1..Len(data.loans[i].payment_history.val) :
                Count(data.loans[i].payment_history.val[k].status.val, "/") = 0 } } :
            i \in 1..Len(data.loans) }

\* C8: with a single payment entry of one loan whose status has no "/", both
\* DPD analyses still return a statistics record for the customer, covering
\* the customer's other loans.
C8_BadEntryDoesNotAbortCustomer ==
    ( /\ pc = "done"
      /\ call \in {"analyze_customer_dpd", "analyze_customer_max_dpd_months"}
      /\ Len(arg.loans) >= 2
      /\ Cardinality(BadEntries(arg)) = 1 )
    => /\ ret.kind = "record"
       /\ Len(ret.val.loan_details) >= 1

\* the loans with at least one payment whose status decodes to 30 or more
LoansWith30Plus(data) ==
    { i \in 1..Len(data.loans) :
        \E j \in 1..Len(data.loans[i].payment_history.val) :
            LET dpd == parse_dpd_code(data.loans[i].payment_history.val[j].status)
            IN dpd.kind = "int" /\ dpd.val[1] >= 30 }

\* the record analyze_customer_dpd is to return for the document in arg
DpdTotalsRight ==
    /\ ret.kind = "record"
    /\ ret.val.total_trades = Len(arg.loans)
    /\ ret.val.trades_with_30plus_dpd = Cardinality(LoansWith30Plus(arg))
    /\ ret.val.trades_with_30plus_dpd <= ret.val.total_trades
    /\ Len(arg.loans) = 0 => ret.val.percentage_x100 = 0
    /\ Len(arg.loans) > 0 =>
          LET diff == ret.val.percentage_x100 * Len(arg.loans)
                      - 10000 * ret.val.trades_with_30plus_dpd
          IN 2 * diff <= Len(arg.loans) /\ 2 * (0 - diff) <= Len(arg.loans)

\* C13: analyze_customer_dpd of a document with zero loans returns
\* total_trades 0, trades_with_30plus_dpd 0 and percentage 0; for any
\* document total_trades is the number of loans and trades_with_30plus_dpd
\* the number of loans with a payment of decoded DPD >= 30, never above
\* total_trades.
C13_DpdTotals ==
    (pc = "done" /\ call = "analyze_customer_dpd") => DpdTotalsRight

\* the totals are right for the documents whose statuses all decode, the
\* document of zero loans among them
DpdTotalsWhenDecodable ==
    (pc = "done" /\ call = "analyze_customer_dpd" /\ BadEntries(arg) = {})
        => DpdTotalsRight

\* the document of zero loans gets 0, 0 and percentage 0
ZeroLoansAnalysed ==
    /\ pc = "done"
    /\ call = "analyze_customer_dpd"
    /\ arg.loans = <<>>
    /\ ret.kind = "record"
    /\ ret.val.total_trades = 0
    /\ ret.val.trades_with_30plus_dpd = 0
    /\ ret.val.percentage_x100 = 0

----------------------------------------------------------------------------
(* The report projector (format_reports.py 57-117).  The analysis document  *)
(* and each loan are dict literals of fixed keys: records.                  *)

\* the first exception among values computed in this order, None otherwise
FirstRaise(values) ==
    IF \A k \in 1..Len(values) : ~IsRaise(values[k]) THEN None
    ELSE values[CHOOSE k \in 1..Len(values) :
                    IsRaise(values[k]) /\ \A j \in 1..(k - 1) : ~IsRaise(values[j])]

\* loan.get("LOAN-DETAILS") with no default
LoanDetailsNoDefault(loan) == Get(loan, "LOAN-DETAILS", None)

\* line 59
LoanDetailsOf(loan) == Get(loan, "LOAN-DETAILS", EmptyDict)

\* lines 57-72
format_loan_details(loan) ==
    LET loan_details == LoanDetailsOf(loan)
        account_type == Get(loan_details, "ACCT-TYPE", None)
        status == Get(loan_details, "ACCOUNT-STATUS", None)
        amount == Get(loan_details, "DISBURSED-AMT", None)
        current_balance == Get(loan_details, "CURRENT-BAL", None)
        disbursed_date == Get(loan_details, "DISBURSED-DATE", None)
        closed_date == Get(loan_details, "CLOSED-DATE", None)
        security_status == Get(loan_details, "SECURITY-STATUS", None)
        payment_history ==
            parse_payment_history(
                Get(loan_details, "COMBINED-PAYMENT-HISTORY", Str(<<>>)))
        raised == FirstRaise(<<loan_details, account_type, status, amount,
                               current_balance, disbursed_date, closed_date,
                               security_status, payment_history>>)
    IN IF IsRaise(raised) THEN raised
       ELSE Record([ account_type |-> account_type, status |-> status,
                     amount |-> amount, current_balance |-> current_balance,
                     disbursed_date |-> disbursed_date,
                     closed_date |-> closed_date,
                     security_status |-> security_status,
                     payment_history |-> payment_history ])

\* lines 113-115: the loans of the responses, or the first exception
\* line 115: the list holding one loan, or the exception of formatting it
FormattedLoan(formatted_loan) ==
    IF IsRaise(formatted_loan) THEN formatted_loan
    ELSE List(<<formatted_loan.val>>)

RECURSIVE FormatLoans(_)
FormatLoans(responses) ==
    IF responses = <<>> THEN List(<<>>)
    ELSE IF Len(responses) = 1
    THEN FormattedLoan(format_loan_details(responses[1]))
    ELSE Chained(FormatLoans(SubSeq(responses, 1, Len(responses) \div 2)),
                 FormatLoans(SubSeq(responses, Len(responses) \div 2 + 1,
                                    Len(responses))))

\* a single response is iterated as it is: a dict yields its keys, strings
ResponseListUnwrapped(responses) ==
    IF responses.kind = "dict"
    THEN List([i \in 1..Len(responses.val) |-> Str(<<responses.val[i][1]>>)])
    ELSE responses

\* lines 109-111
ResponseList(responses) ==
    IF IsRaise(responses) THEN responses
    ELSE IF responses.kind # "list" THEN List(<<responses>>)
    ELSE responses

\* lines 74-117
analyze_credit_report(xml_data) ==
    LET data == xml_to_dict(xml_data)
        report == Get(Get(data, "INDV-REPORTS", EmptyDict), "INDV-REPORT", EmptyDict)
        header == Get(report, "HEADER", EmptyDict)
        score == Get(Get(report, "SCORES", EmptyDict), "SCORE", EmptyDict)
        accounts == Get(report, "ACCOUNTS-SUMMARY", EmptyDict)
        derived == Get(accounts, "DERIVED-ATTRIBUTES", EmptyDict)
        primary == Get(accounts, "PRIMARY-ACCOUNTS-SUMMARY", EmptyDict)
        report_date == Get(header, "DATE-OF-ISSUE", None)
        value == Get(score, "SCORE-VALUE", None)
        type == Get(score, "SCORE-TYPE", None)
        comments == Get(score, "SCORE-COMMENTS", None)
        total_accounts == Get(primary, "PRIMARY-NUMBER-OF-ACCOUNTS", None)
        active_accounts == Get(primary, "PRIMARY-ACTIVE-NUMBER-OF-ACCOUNTS", None)
        overdue_accounts == Get(primary, "PRIMARY-OVERDUE-NUMBER-OF-ACCOUNTS", None)
        total_balance == Get(primary, "PRIMARY-CURRENT-BALANCE", None)
        credit_history_years == Get(derived, "LENGTH-OF-CREDIT-HISTORY-YEAR", None)
        recent_inquiries == Get(derived, "INQUIRIES-IN-LAST-SIX-MONTHS", None)
        responses ==
            ResponseList(Get(Get(report, "RESPONSES", EmptyDict), "RESPONSE", List(<<>>)))
        loans == IF IsRaise(responses) THEN responses ELSE FormatLoans(responses.val)
        raised == FirstRaise(<<report, header, score, accounts, derived, primary,
                               report_date, value, type, comments,
                               total_accounts, active_accounts, overdue_accounts,
                               total_balance, credit_history_years,
                               recent_inquiries, responses, loans>>)
    IN IF IsRaise(raised) THEN raised
       ELSE Record([ report_date |-> report_date,
                     credit_score |-> [ value |-> value, type |-> type,
                                        comments |-> comments ],
                     summary |-> [ total_accounts |-> total_accounts,
                                   active_accounts |-> active_accounts,
                                   overdue_accounts |-> overdue_accounts,
                                   total_balance |-> total_balance,
                                   credit_history_years |-> credit_history_years,
                                   recent_inquiries |-> recent_inquiries ],
                     loans |-> loans.val ])

----------------------------------------------------------------------------
(* Inputs of the projector: bureau report trees.  A full report has every   *)
(* path the projector looks up; a tree is a full report of n RESPONSEs      *)
(* with the elements named in `absent` (and all below them) left out.       *)

Blank == Str(<<"\n", "\t">>)

Decor(attrs) == IF attrs THEN << <<"id", Str(<<"1">>)>> >> ELSE <<>>

Container(tag, attrs, kids) == Element(tag, Decor(attrs), kids, Blank)

Field(tag, text) == Element(tag, <<>>, <<>>, Str(text))

ScoreFields == <<"SCORE-VALUE", "SCORE-TYPE", "SCORE-COMMENTS">>

DerivedFields == <<"LENGTH-OF-CREDIT-HISTORY-YEAR", "INQUIRIES-IN-LAST-SIX-MONTHS">>

PrimaryFields ==
    << "PRIMARY-NUMBER-OF-ACCOUNTS", "PRIMARY-ACTIVE-NUMBER-OF-ACCOUNTS",
       "PRIMARY-OVERDUE-NUMBER-OF-ACCOUNTS", "PRIMARY-CURRENT-BALANCE" >>

LoanFields ==
    << "ACCT-TYPE", "ACCOUNT-STATUS", "DISBURSED-AMT", "CURRENT-BAL",
       "DISBURSED-DATE", "CLOSED-DATE", "SECURITY-STATUS" >>

Range(f) == {f[i] : i \in DOMAIN f}

ReportNames ==
    { "INDV-REPORTS", "INDV-REPORT", "HEADER", "DATE-OF-ISSUE", "SCORES", "SCORE",
      "ACCOUNTS-SUMMARY", "DERIVED-ATTRIBUTES", "PRIMARY-ACCOUNTS-SUMMARY",
      "RESPONSES" }
    \cup Range(ScoreFields) \cup Range(DerivedFields) \cup Range(PrimaryFields)

LoanNames == {"LOAN-DETAILS", "COMBINED-PAYMENT-HISTORY"} \cup Range(LoanFields)

\* the elements that may be left out: <<0, name>> in the report, <<i, name>>
\* in the i-th RESPONSE
Paths(n) ==
    {<<0, name>> : name \in ReportNames}
    \cup {<<i, name>> : i \in 1..n, name \in LoanNames}

\* the subsets of P with at most two elements
UpToTwo(P) == {{}} \cup {{a, b} : a \in P, b \in P}

HistoryText(i) ==
    << "m", Digits[i + 1], ",", "0", "3", "0", "/", "0", "0", "|", "x", "|",
       "n", ",", "X", "X", "X", "/", "0", "1" >>

ReportTree(n, absent, attrs) ==
    LET Opt(i, name, e) == IF <<i, name>> \in absent THEN <<>> ELSE <<e>>
        Fields(i, names, letter) ==
            [j \in 1..Len(names) |->
                Opt(i, names[j],
                    Field(names[j], <<" ", letter, Digits[i + 1], Digits[j + 1], "\n">>))]
        RECURSIVE Flatten(_)
        Flatten(ss) == IF ss = <<>> THEN <<>> ELSE Head(ss) \o Flatten(Tail(ss))
        header == Container("HEADER", attrs,
                      Opt(0, "DATE-OF-ISSUE", Field("DATE-OF-ISSUE", <<"D">>)))
        scores == Container("SCORES", attrs,
                      Opt(0, "SCORE",
                          Container("SCORE", attrs, Flatten(Fields(0, ScoreFields, "s")))))
        accounts ==
            Container("ACCOUNTS-SUMMARY", attrs,
                Opt(0, "DERIVED-ATTRIBUTES",
                    Container("DERIVED-ATTRIBUTES", attrs,
                              Flatten(Fields(0, DerivedFields, "d"))))
                \o Opt(0, "PRIMARY-ACCOUNTS-SUMMARY",
                       Container("PRIMARY-ACCOUNTS-SUMMARY", attrs,
                                 Flatten(Fields(0, PrimaryFields, "p")))))
        response(i) ==
            Container("RESPONSE", attrs,
                Opt(i, "LOAN-DETAILS",
                    Container("LOAN-DETAILS", attrs,
                        Flatten(Fields(i, LoanFields, "l"))
                        \o Opt(i, "COMBINED-PAYMENT-HISTORY",
                               Field("COMBINED-PAYMENT-HISTORY", HistoryText(i))))))
        responses == Container("RESPONSES", attrs, [i \in 1..n |-> response(i)])
        report ==
            Container("INDV-REPORT", attrs,
                Opt(0, "HEADER", header) \o Opt(0, "SCORES", scores)
                \o Opt(0, "ACCOUNTS-SUMMARY", accounts)
                \o Opt(0, "RESPONSES", responses))
    IN Container("INDV-REPORT-FILE", attrs,
           Opt(0, "INDV-REPORTS",
               Container("INDV-REPORTS", attrs, Opt(0, "INDV-REPORT", report))))

\* the reports of n RESPONSEs with at most two elements left out
ReportTrees(n) ==
    { ReportTree(n, absent, attrs) :
        absent \in UpToTwo(Paths(n)), attrs \in BOOLEAN }

InitReport ==
    /\ pc = "ready"
    /\ call = "analyze_credit_report"
    /\ \E n \in 0..MaxLoans : arg \in ReportTrees(n)
    /\ ret = None
    /\ NoBatch

AnalyzeCreditReport ==
    /\ pc = "ready"
    /\ call = "analyze_credit_report"
    /\ ret' = analyze_credit_report(arg)
    /\ pc' = "done"
    /\ UNCHANGED <<call, arg, batch>>

NextReport == AnalyzeCreditReport

SpecReport == InitReport /\ [][NextReport]_vars

----------------------------------------------------------------------------
(* Inputs of the projector: full reports in which every element of one tag  *)
(* has one of the shapes a bureau file can give it: text only, empty,       *)
(* repeated, or carrying an attribute.                                      *)

ShapeTags ==
    { "INDV-REPORTS", "INDV-REPORT", "HEADER", "DATE-OF-ISSUE", "SCORES", "SCORE",
      "SCORE-VALUE", "ACCOUNTS-SUMMARY", "DERIVED-ATTRIBUTES",
      "PRIMARY-ACCOUNTS-SUMMARY", "PRIMARY-CURRENT-BALANCE", "RESPONSES",
      "RESPONSE", "LOAN-DETAILS", "ACCT-TYPE", "COMBINED-PAYMENT-HISTORY" }

Shapes == {"plain", "text", "empty", "twice", "attrs"}

\* the elements that stand for e in the given shape
Shaped(e, shape) ==
    CASE shape = "text" -> <<Element(e.tag, <<>>, <<>>, Str(<<"t">>))>>
      [] shape = "empty" -> <<Element(e.tag, <<>>, <<>>, None)>>
      [] shape = "twice" -> <<e, e>>
      [] shape = "attrs" ->
            <<Element(e.tag, Append(e.attrib, <<"code", Str(<<"7">>)>>),
                      e.children, e.text)>>
      [] OTHER -> <<e>>

RECURSIVE Reshape(_, _, _)
RECURSIVE ReshapeAll(_, _, _)

ReshapeAll(children, tag, shape) ==
    IF children = <<>> THEN <<>>
    ELSE LET child == Reshape(Head(children), tag, shape)
         IN (IF child.tag = tag THEN Shaped(child, shape) ELSE <<child>>)
            \o ReshapeAll(Tail(children), tag, shape)

\* e with every descendant of that tag put in that shape
Reshape(e, tag, shape) ==
    Element(e.tag, e.attrib, ReshapeAll(e.children, tag, shape), e.text)

\* the full reports of n RESPONSEs with one tag reshaped
ShapedTrees(n) ==
    { Reshape(ReportTree(n, {}, attrs), tag, shape) :
        tag \in ShapeTags, shape \in Shapes, attrs \in BOOLEAN }

InitShapes ==
    /\ pc = "ready"
    /\ call = "analyze_credit_report"
    /\ \E n \in 0..MaxLoans : arg \in ShapedTrees(n)
    /\ ret = None
    /\ NoBatch

NextShapes == AnalyzeCreditReport

SpecShapes == InitShapes /\ [][NextShapes]_vars

\* C14: for every value xml_to_dict can return for a report tree, also when
\* a node on a looked-up path is a string (an element with only text), a
\* list (a repeated element) or when COMBINED-PAYMENT-HISTORY is a mapping
\* (it has attributes), analyze_credit_report returns an analysis document
\* and does not raise.
C14_ProjectionIsTotal ==
    (pc = "done" /\ call = "analyze_credit_report") => ret.kind = "record"

----------------------------------------------------------------------------
(* File names: the interim file of a source file (format_reports.py 130)    *)
(* and the customer id read back from it (main.py 65).  A name is a         *)
(* sequence of characters.                                                  *)

\* str.rfind(c): the last position of c in s, 0 when there is none
RFind(s, c) ==
    IF \E i \in 1..Len(s) : s[i] = c
    THEN CHOOSE i \in 1..Len(s) : s[i] = c /\ \A j \in (i + 1)..Len(s) : s[j] # c
    ELSE 0

\* pathlib's PurePath.stem: the name without its last suffix; a dot that
\* leads or ends the name starts no suffix
stem(name) ==
    LET i == RFind(name, ".")
    IN IF 1 < i /\ i < Len(name) THEN SubSeq(name, 1, i - 1) ELSE name

\* format_reports.py 130: f"formatted_{xml_file.stem}.json"
output_file(xml_file) ==
    <<"f", "o", "r", "m", "a", "t", "t", "e", "d", "_">> \o stem(xml_file)
    \o <<".", "j", "s", "o", "n">>

\* main.py 65: report_file.name.split('_')[1].split('.')[0]
customer_id(report_file) ==
    LET parts == Split(report_file, "_")
    IN IF Len(parts) < 2 THEN Raise("IndexError")
       ELSE Str(Split(parts[2], ".")[1])

MaxStemLen == 2

NameChars == {"a", "b", "_", "."}

\* the names input_dir.glob('*.xml') can yield
XmlNames(n) == {s \o <<".", "x", "m", "l">> : s \in SeqsUpTo(NameChars, n)}

\* two files of one directory
InitNames ==
    /\ pc = "ready"
    /\ call = "file_names"
    /\ \E f \in XmlNames(MaxStemLen), g \in XmlNames(MaxStemLen) :
          f # g /\ arg = <<f, g>>
    /\ ret = None
    /\ NoBatch

\* process_credit_report names the interim file of each source file
OutputFiles ==
    /\ pc = "ready"
    /\ call = "file_names"
    /\ ret' = [i \in 1..Len(arg) |-> [output_file |-> output_file(arg[i])]]
    /\ pc' = "named"
    /\ UNCHANGED <<call, arg, batch>>

\* run_analysis reads the customer id off each interim file name
CustomerIds ==
    /\ pc = "named"
    /\ call = "file_names"
    /\ ret' = [i \in 1..Len(ret) |->
                 [output_file |-> ret[i].output_file,
                  customer_id |-> customer_id(ret[i].output_file)]]
    /\ pc' = "done"
    /\ UNCHANGED <<call, arg, batch>>

NextNames == OutputFiles \/ CustomerIds

SpecNames == InitNames /\ [][NextNames]_vars

\* C12: the interim file name is formatted_<stem>.json, a function of the
\* source file name alone, and two input files with distinct stems get
\* distinct interim file names and distinct recovered customer ids (the
\* text between the first "_" and the following ".").
C12_NamesIdentifySource ==
    (pc = "done" /\ call = "file_names" /\ stem(arg[1]) # stem(arg[2])) =>
        /\ ret[1].output_file # ret[2].output_file
        /\ ret[1].customer_id # ret[2].customer_id

----------------------------------------------------------------------------
(* The disbursement analysis (analyze_disbursed_amount.py 5-38).  An       *)
(* amount is the int 0 or a float.                                         *)

\* lines 12-15: the float, or 0 for what float() rejects
FloatOrZero(value) == IF IsRaise(value) THEN IntVal(0) ELSE value

\* lines 5-15
parse_amount(amount_str) ==
    IF ~Truthy(amount_str) THEN IntVal(0)
    ELSE IF amount_str.kind # "str" THEN Raise("AttributeError")
    ELSE FloatOrZero(PyFloat(Strip(Remove(Remove(amount_str.val, ","), "₹"))))

\* lines 27-32: the detail of a loan before those of the later loans
LoanDisbursement(loan, amount, rest) ==
    IF IsRaise(amount) THEN amount
    ELSE IF IsRaise(rest) THEN rest
    ELSE List(<< [ type |-> loan.account_type,
                   amount |-> amount,
                   date |-> loan.disbursed_date,
                   status |-> loan.status ] >> \o rest.val)

\* lines 22-32: the breakdown of the loans, or the first exception
RECURSIVE DisbursementDetails(_)
DisbursementDetails(loans) ==
    IF loans = <<>> THEN List(<<>>)
    ELSE IF Len(loans) = 1
    THEN LoanDisbursement(loans[1], parse_amount(loans[1].amount), List(<<>>))
    ELSE Chained(DisbursementDetails(SubSeq(loans, 1, Len(loans) \div 2)),
                 DisbursementDetails(SubSeq(loans, Len(loans) \div 2 + 1, Len(loans))))

\* a + b on an int or float a and an int or float b
NumAdd(a, b) ==
    IF a.kind = "int" /\ b.kind = "int" THEN IntVal(a.val[1] + b.val[1])
    ELSE FloatAdd(IF a.kind = "int" THEN FloatOfInt(a.val[1]) ELSE a,
                  IF b.kind = "int" THEN FloatOfInt(b.val[1]) ELSE b)

\* lines 19 and 24: the amounts added to total_amount in the order of the loans
RECURSIVE TotalAmount(_, _)
RECURSIVE LaterAmounts(_, _)
TotalAmount(loan_details, total_amount) ==
    IF loan_details = <<>> THEN total_amount
    ELSE IF Len(loan_details) = 1 THEN NumAdd(total_amount, loan_details[1].amount)
    ELSE LaterAmounts(SubSeq(loan_details, Len(loan_details) \div 2 + 1,
                             Len(loan_details)),
                      TotalAmount(SubSeq(loan_details, 1, Len(loan_details) \div 2),
                                  total_amount))

\* the later amounts are added to the total of the earlier ones, which is a
\* number
LaterAmounts(loan_details, total_amount) ==
    IF IsRaise(total_amount) THEN total_amount
    ELSE TotalAmount(loan_details, total_amount)

\* lines 34-38
Disbursements(loan_details) ==
    IF IsRaise(loan_details) THEN loan_details
    ELSE Record([ total_disbursed |-> TotalAmount(loan_details.val, IntVal(0)),
                  loan_count |-> Len(loan_details.val),
                  loan_details |-> loan_details.val ])

\* lines 17-38
analyze_customer_disbursements(data) ==
    Disbursements(DisbursementDetails(data.loans))

----------------------------------------------------------------------------
(* The batch driver: clean_credit_reports (format_reports.py 119-167) and   *)
(* run_analysis (main.py 41-88), called in turn by main (main.py 101-108).  *)
(* An input file is its name and what ET.parse makes of it: the root        *)
(* element, or ParseError.  The interim directory maps a file name to the   *)
(* document json.dump wrote; json.load gives the same document back         *)
(* (string keys, strings, None and lists only).                             *)

\* the ASCII characters, U+0001 to U+007F.  (The grave accent, U+0060,
\* cannot be written in a string of this language.)
AsciiChars ==
    {
      "", "", "", "", "", "", "", "", "\t", "\n", "", "\f",
      "\r", "", "", "", "", "", "", "", "", "", "", "",
      "", "", "", "", "", "", "", " ", "!", "\"", "#", "$",
      "%", "&", "'", "(", ")", "*", "+", ",", "-", ".", "/", "0",
      "1", "2", "3", "4", "5", "6", "7", "8", "9", ":", ";", "<",
      "=", ">", "?", "@", "A", "B", "C", "D", "E", "F", "G", "H",
      "I", "J", "K", "L", "M", "N", "O", "P", "Q", "R", "S", "T",
      "U", "V", "W", "X", "Y", "Z", "[", "\\", "]", "^", "_", "a",
      "b", "c", "d", "e", "f", "g", "h", "i", "j", "k", "l", "m",
      "n", "o", "p", "q", "r", "s", "t", "u", "v", "w", "x", "y",
      "z", "{", "|", "}", "~", "" }

\* the characters U+0080 to U+00FF
Latin1Chars ==
    {
      "", "", "", "", "", "", "", "", "", "", "", "",
      "", "", "", "", "", "", "", "", "", "", "", "",
      "", "", "", "", "", "", "", "", " ", "¡", "¢", "£",
      "¤", "¥", "¦", "§", "¨", "©", "ª", "«", "¬", "­", "®", "¯",
      "°", "±", "²", "³", "´", "µ", "¶", "·", "¸", "¹", "º", "»",
      "¼", "½", "¾", "¿", "À", "Á", "Â", "Ã", "Ä", "Å", "Æ", "Ç",
      "È", "É", "Ê", "Ë", "Ì", "Í", "Î", "Ï", "Ð", "Ñ", "Ò", "Ó",
      "Ô", "Õ", "Ö", "×", "Ø", "Ù", "Ú", "Û", "Ü", "Ý", "Þ", "ß",
      "à", "á", "â", "ã", "ä", "å", "æ", "ç", "è", "é", "ê", "ë",
      "ì", "í", "î", "ï", "ð", "ñ", "ò", "ó", "ô", "õ", "ö", "÷",
      "ø", "ù", "ú", "û", "ü", "ý", "þ", "ÿ" }

HexDigits ==
    {"0", "1", "2", "3", "4", "5", "6", "7", "8", "9", "a", "b", "c", "d", "e", "f"}

\* a byte of a file name that is no character to the file system's encoding,
\* 0x80 to 0xff, is the surrogate U+DC80 to U+DCFF in the name Python reads;
\* here it is one element of the name, written as Python writes it
Surrogates ==
    {"\\udc" \o h \o l : h \in {"8", "9", "a", "b", "c", "d", "e", "f"}, l \in HexDigits}

\* encodings of sys.stdout
Encodings == {"utf-8", "latin-1", "ascii"}

\* error handlers of sys.stdout.  Nothing in the program sets the handler:
\* it is 'strict' unless the environment gives another (PYTHONIOENCODING,
\* or 'surrogateescape' under the C and POSIX locales)
ErrorHandlers == {"strict", "surrogateescape", "backslashreplace"}

\* the codec has the character
CodecHas(encoding, c) ==
    CASE encoding = "ascii" -> c \in AsciiChars
      [] encoding = "latin-1" -> c \in AsciiChars \cup Latin1Chars
      [] encoding = "utf-8" -> c \notin Surrogates

\* the stream writes the character: the codec has it, or the handler
\* writes something in its place ('surrogateescape' the byte of a
\* surrogate, 'backslashreplace' an escape of any character)
EncodesChar(stream, c) ==
    \/ CodecHas(stream.encoding, c)
    \/ stream.errors = "surrogateescape" /\ c \in Surrogates
    \/ stream.errors = "backslashreplace"

\* print(text) writes the text; otherwise it raises UnicodeEncodeError
Encodes(stream, text) == \A k \in 1..Len(text) : EncodesChar(stream, text[k])

\* format_reports.py 122-127: the analysis of one file, or the exception
\* that reaches line 150
Analysis(xml_file) ==
    IF "tag" \in DOMAIN xml_file.content
    THEN analyze_credit_report(xml_file.content)
    ELSE xml_file.content

\* format_reports.py 133-134: the interim directory after json.dump, which
\* is not reached after an exception
Dumped(files, xml_file) ==
    IF IsRaise(Analysis(xml_file)) THEN files
    ELSE DictSet(Dict(files), output_file(xml_file.name), Analysis(xml_file)).val

\* line 145 writes U+00E2, U+201A and U+00B9 before the balance: the
\* encodings that have the three
EncodeLine145 == {"utf-8"}

\* line 145 is written: by the codec, or by a handler that escapes
Line145Written(stream) ==
    stream.encoding \in EncodeLine145 \/ stream.errors = "backslashreplace"

\* format_reports.py 137-146 are written: the name of the file, the values
\* of the summary and line 145.  (A stream that writes line 145 writes
\* every character an XML document can hold, so the values raise nothing.)
SummaryWritten(xml_file, stream) ==
    Encodes(stream, xml_file.name) /\ Line145Written(stream)

\* format_reports.py 151 is written: the path of the file, whose directory
\* is ASCII, and str(e), which is ASCII for each exception of lines 122-146
ErrorWritten(xml_file, stream) == Encodes(stream, xml_file.name)

\* format_reports.py 119-152, its prints going to the stream sys.stdout:
\* the output file; None after an exception; the UnicodeEncodeError of
\* line 151, which nothing catches
process_credit_report(xml_file, stream) ==
    IF ~IsRaise(Analysis(xml_file)) /\ SummaryWritten(xml_file, stream)
    THEN Str(output_file(xml_file.name))
    ELSE IF ErrorWritten(xml_file, stream) THEN None
    ELSE Raise("UnicodeEncodeError")

\* format_reports.py 164-165
Appended(files, out) == IF Truthy(out) THEN Append(files, out) ELSE files

\* main.py 43-56, in the order of the dict
AnalysisNames == <<"dpd", "max_dpd_months", "disbursements">>

\* main.py 71: analysis_funcs['analyze'](data)
Analyze(name, data) ==
    CASE name = "dpd" -> analyze_customer_dpd(data)
      [] name = "max_dpd_months" -> analyze_customer_max_dpd_months(data)
      [] name = "disbursements" -> analyze_customer_disbursements(data)

\* main.py 73-76: the results after one report
Analyzed(found, id, stats) ==
    IF IsRaise(id) \/ IsRaise(stats) THEN found
    ELSE Append(found, [customer_id |-> id, stats |-> stats])

\* format_reports.py 162-165: one turn of the loop over the input files.
\* An exception that leaves process_credit_report leaves
\* clean_credit_reports, and main logs it and raises it again (main.py
\* 116-118)
ProcessCreditReport ==
    /\ pc = "ready"
    /\ call = "main"
    /\ position < Len(arg)
    /\ interim' = Dumped(interim, arg[position + 1])
    /\ IF IsRaise(process_credit_report(arg[position + 1], stdout))
       THEN /\ pc' = "failed"
            /\ ret' = process_credit_report(arg[position + 1], stdout)
            /\ UNCHANGED <<position, processed_files>>
       ELSE /\ processed_files' =
                  Appended(processed_files,
                           process_credit_report(arg[position + 1], stdout))
            /\ position' = position + 1
            /\ UNCHANGED <<pc, ret>>
    /\ UNCHANGED <<call, arg, stdout, analysis_name, results, written>>

\* format_reports.py 167, main.py 101-108 and 58-60: clean_credit_reports
\* returns and run_analysis starts its first analysis
RunAnalysis ==
    /\ pc = "ready"
    /\ call = "main"
    /\ position = Len(arg)
    /\ ret' = List(processed_files)
    /\ pc' = "run_analysis"
    /\ analysis_name' = AnalysisNames[1]
    /\ position' = 0
    /\ results' = <<>>
    /\ UNCHANGED <<call, arg, stdout, processed_files, interim, written>>

\* main.py 61-81: one turn of the loop over the formatted reports
AnalyzeReport ==
    /\ pc = "run_analysis"
    /\ position < Len(ret.val)
    /\ LET report_file == ret.val[position + 1].val
           data == Lookup(Dict(interim), report_file).val
       IN results' = Analyzed(results, customer_id(report_file),
                              Analyze(analysis_name, data))
    /\ position' = position + 1
    /\ UNCHANGED <<pc, call, arg, ret, stdout, processed_files, interim,
                   analysis_name, written>>

\* main.py 83-85 and 58-60: the results are written and the next analysis
\* starts, if any
WriteResults ==
    /\ pc = "run_analysis"
    /\ position = Len(ret.val)
    /\ written' = Append(written, [analysis_name |-> analysis_name,
                                   results |-> results])
    /\ IF Len(written) + 1 < Len(AnalysisNames)
       THEN /\ analysis_name' = AnalysisNames[Len(written) + 2]
            /\ position' = 0
            /\ results' = <<>>
            /\ pc' = pc
       ELSE /\ pc' = "done"
            /\ UNCHANGED <<analysis_name, position, results>>
    /\ UNCHANGED <<call, arg, ret, stdout, processed_files, interim>>

\* a report of one loan with that DISBURSED-AMT element and history text
LoanReport(amount, history) ==
    Container("INDV-REPORT-FILE", FALSE,
      << Container("INDV-REPORTS", FALSE,
           << Container("INDV-REPORT", FALSE,
                << Container("RESPONSES", FALSE,
                     << Container("RESPONSE", FALSE,
                          << Container("LOAN-DETAILS", FALSE,
                               << amount,
                                  Field("COMBINED-PAYMENT-HISTORY", history)
                               >>) >>) >>) >>) >>) >>)

\* what ET.parse makes of a file: no XML; a report all analyses accept; one
\* whose history has a status without "/" and whose amount is written in
\* digits of another script; one whose amount element has an attribute; one
\* whose HEADER is text
Contents ==
    { Raise("ParseError"),
      LoanReport(Field("DISBURSED-AMT", <<"1", ",", "5", ".", "5">>),
                 <<"m", ",", "0", "3", "0", "/", "0">>),
      LoanReport(Field("DISBURSED-AMT", <<"۴", ".", "۵">>),
                 <<"m", ",", "b", "a", "d">>),
      LoanReport(Element("DISBURSED-AMT", <<<<"code", Str(<<"7">>)>>>>, <<>>,
                         Str(<<"5">>)),
                 <<"m", ",", "0", "2", "9", "/", "0">>),
      Container("INDV-REPORT-FILE", FALSE,
        << Container("INDV-REPORTS", FALSE,
             << Container("INDV-REPORT", FALSE,
                  << Field("HEADER", <<"t">>) >>) >>) >>) }

\* names of one directory: the second and third have the same stem, the
\* first has a character beyond ASCII and the last a byte that is no
\* character
BatchNames ==
    { <<"é", ".", "x", "m", "l">>,
      <<".", "x", "m", "l">>,
      <<".", "x", "m", "l", ".", "x", "m", "l">>,
      <<"\\udcff", ".", "x", "m", "l">> }

MaxFiles == 2

\* sys.stdout as the environment can set it up: the default handler with
\* each encoding, utf-8 as under the C locale, ascii with escapes
Streams ==
    { s \in [encoding : Encodings, errors : ErrorHandlers] :
        \/ s.errors = "strict"
        \/ s.encoding = "utf-8" /\ s.errors = "surrogateescape"
        \/ s.encoding = "ascii" /\ s.errors = "backslashreplace" }

\* what input_dir.glob('*.xml') can yield: at most n files of distinct names
XmlFiles(n) ==
    UNION { { files \in [1..m -> [name : BatchNames, content : Contents]] :
                \A j, k \in 1..m : j # k => files[j].name # files[k].name }
            : m \in 0..n }

InitDriver ==
    /\ pc = "ready"
    /\ call = "main"
    /\ arg \in XmlFiles(MaxFiles)
    /\ ret = None
    /\ stdout \in Streams
    /\ NoFiles

NextDriver == ProcessCreditReport \/ RunAnalysis \/ AnalyzeReport \/ WriteResults

SpecDriver == InitDriver /\ [][NextDriver]_vars

----------------------------------------------------------------------------
(* Every operation, on any of its inputs *)

Init ==
    InitXml \/ InitHistory \/ InitDpd \/ InitAnalysis \/ InitReport \/ InitShapes
    \/ InitNames \/ InitDriver

Next ==
    \/ XmlToDict
    \/ ParsePaymentHistory
    \/ ParseDpdCode
    \/ AnalyzeCustomerDpd
    \/ AnalyzeCustomerMaxDpdMonths
    \/ AnalyzeCreditReport
    \/ OutputFiles
    \/ CustomerIds
    \/ ProcessCreditReport
    \/ RunAnalysis
    \/ AnalyzeReport
    \/ WriteResults

Spec == Init /\ [][Next]_vars

----------------------------------------------------------------------------
(* What the projector's claims speak of, read off the report tree itself *)

Missing == Element("", <<>>, <<>>, None)

IsMissing(e) == e.tag = ""

\* the children of e tagged t, in document order
ChildrenTagged(e, t) ==
    [k \in 1..Cardinality(Tagged(e, t)) |-> e.children[Nth(Tagged(e, t), k)]]

\* the element reached from e through the first child of each tag of path
RECURSIVE Descend(_, _)
Descend(e, path) ==
    IF path = <<>> THEN e
    ELSE IF Tagged(e, Head(path)) = {} THEN Missing
    ELSE Descend(ChildrenTagged(e, Head(path))[1], Tail(path))

ReportElement(root) == Descend(root, <<"INDV-REPORTS", "INDV-REPORT">>)

ResponseElements(root) ==
    ChildrenTagged(Descend(ReportElement(root), <<"RESPONSES">>), "RESPONSE")

\* root with the children of the element at path replaced by kids
RECURSIVE WithChildren(_, _, _)
WithChildren(e, path, kids) ==
    IF path = <<>> THEN [e EXCEPT !.children = kids]
    ELSE [e EXCEPT !.children =
            [j \in 1..Len(e.children) |->
                IF j = Nth(Tagged(e, Head(path)), 1)
                THEN WithChildren(e.children[j], Tail(path), kids)
                ELSE e.children[j]]]

\* the same report with its only RESPONSE followed by a second copy of it
Doubled(root) ==
    WithChildren(root, <<"INDV-REPORTS", "INDV-REPORT", "RESPONSES">>,
                 ResponseElements(root) \o ResponseElements(root))

Projected == pc = "done" /\ call = "analyze_credit_report"

\* C7: loans has one Loan per RESPONSE child of RESPONSES, in document
\* order (none without RESPONSE); a single RESPONSE gives one Loan, the same
\* Loan it gives as a member of a list of several RESPONSEs.
C7_OneLoanPerResponse ==
    Projected =>
        /\ ret.kind = "record"
        /\ Len(ret.val.loans) = Len(ResponseElements(arg))
        /\ \A i \in 1..Len(ret.val.loans) :
              Record(ret.val.loans[i]) =
                 format_loan_details(xml_to_dict(ResponseElements(arg)[i]))
        /\ Len(ResponseElements(arg)) = 1 =>
              /\ Len(analyze_credit_report(Doubled(arg)).val.loans) = 2
              /\ analyze_credit_report(Doubled(arg)).val.loans[1] = ret.val.loans[1]
              /\ analyze_credit_report(Doubled(arg)).val.loans[2] = ret.val.loans[1]

C7_Witness ==
    /\ Projected
    /\ Len(ResponseElements(arg)) = 1
    /\ ret.kind = "record"
    /\ Len(ret.val.loans) = 1
    /\ ret.val.loans[1].account_type.kind = "str"
    /\ Len(ret.val.loans[1].payment_history.val) = 2

\* the normalized tree has no report container: no INDV-REPORTS under the
\* root mapping, or no INDV-REPORT under the INDV-REPORTS mapping
NoReportContainer(data) ==
    /\ data.kind = "dict"
    /\ \/ ~HasKey(data, "INDV-REPORTS")
       \/ /\ Lookup(data, "INDV-REPORTS").kind = "dict"
          /\ ~HasKey(Lookup(data, "INDV-REPORTS"), "INDV-REPORT")

\* C9 as stated: without the report container analyze_credit_report
\* surfaces an error instead of returning a document.
C9_MissingContainerIsFatal ==
    (Projected /\ NoReportContainer(xml_to_dict(arg))) => IsRaise(ret)

\* C9 amended: without the report container analyze_credit_report raises
\* nothing and returns the document whose scalars are all None and whose
\* loans are empty.
C9_MissingContainerGivesEmptyDocument ==
    (Projected /\ NoReportContainer(xml_to_dict(arg))) =>
        ret = Record(Document(EmptyHeader, <<>>))

C9_Witness ==
    /\ Projected
    /\ IsMissing(ReportElement(arg))
    /\ ~IsMissing(Descend(arg, <<"INDV-REPORTS">>))
    /\ ret = Record(Document(EmptyHeader, <<>>))

\* a scalar of the document against the element of its path: None when the
\* element is absent, its trimmed text when it is there
FieldOk(value, e) ==
    IF IsMissing(e) THEN value = None
    ELSE value.kind = "str" /\ IsTrimOf(value.val, e.text.val)

FieldsOk(values, e, names) ==
    \A j \in 1..Len(names) : FieldOk(values[j], Descend(e, <<names[j]>>))

LoanOk(loan, response) ==
    LET ld == Descend(response, <<"LOAN-DETAILS">>)
        cph == Descend(ld, <<"COMBINED-PAYMENT-HISTORY">>)
    IN /\ FieldsOk(<<loan.account_type, loan.status, loan.amount,
                     loan.current_balance, loan.disbursed_date,
                     loan.closed_date, loan.security_status>>, ld, LoanFields)
       /\ loan.payment_history.kind = "list"
       /\ IF IsMissing(cph) THEN loan.payment_history.val = <<>>
          ELSE Len(loan.payment_history.val) = Cardinality(KeptEntries(cph.text.val))

\* C10: with any of the optional paths absent, analyze_credit_report
\* returns a document of the fixed shape in which every scalar whose path is
\* absent is None (and holds the element's text otherwise) and every loan
\* whose COMBINED-PAYMENT-HISTORY is absent has an empty payment_history.
C10_AbsenceDegradesToNone ==
    Projected =>
        /\ ret.kind = "record"
        /\ LET r == ReportElement(arg)
               d == ret.val
           IN /\ FieldOk(d.report_date, Descend(r, <<"HEADER", "DATE-OF-ISSUE">>))
              /\ FieldsOk(<<d.credit_score.value, d.credit_score.type,
                            d.credit_score.comments>>,
                          Descend(r, <<"SCORES", "SCORE">>), ScoreFields)
              /\ FieldsOk(<<d.summary.total_accounts, d.summary.active_accounts,
                            d.summary.overdue_accounts, d.summary.total_balance>>,
                          Descend(r, <<"ACCOUNTS-SUMMARY", "PRIMARY-ACCOUNTS-SUMMARY">>),
                          PrimaryFields)
              /\ FieldsOk(<<d.summary.credit_history_years, d.summary.recent_inquiries>>,
                          Descend(r, <<"ACCOUNTS-SUMMARY", "DERIVED-ATTRIBUTES">>),
                          DerivedFields)
              /\ Len(d.loans) = Len(ResponseElements(arg))
              /\ \A i \in 1..Len(d.loans) : LoanOk(d.loans[i], ResponseElements(arg)[i])

C10_Witness ==
    /\ Projected
    /\ Len(ResponseElements(arg)) = 2
    /\ IsMissing(Descend(ResponseElements(arg)[1], <<"LOAN-DETAILS">>))
    /\ IsMissing(Descend(ReportElement(arg), <<"SCORES">>))
    /\ ret.kind = "record"
    /\ ret.val.credit_score.value = None
    /\ ret.val.loans[1].payment_history = List(<<>>)
    /\ ret.val.loans[2].account_type.kind = "str"
----------------------------------------------------------------------------
(* What the batch driver's claim speaks of, read off the input files *)

\* the file parses and its report is projected: its interim file is written
Projects(xml_file) ==
    /\ "tag" \in DOMAIN xml_file.content
    /\ ~IsRaise(analyze_credit_report(xml_file.content))

\* the file is processed without a failure: its interim file is written and
\* its summary is written to sys.stdout
Succeeds(xml_file) == Projects(xml_file) /\ SummaryWritten(xml_file, stdout)

\* the output files of the files that succeed, in iteration order
RECURSIVE SucceededOutputs(_)
SucceededOutputs(files) ==
    IF files = <<>> THEN <<>>
    ELSE (IF Succeeds(Head(files)) THEN <<Str(output_file(Head(files).name))>>
          ELSE <<>>)
         \o SucceededOutputs(Tail(files))

\* the document an interim file holds once all inputs are processed: that
\* of the last input that was projected and given this output file
ReportData(report_file) ==
    LET writers == {k \in 1..Len(arg) :
                      /\ Projects(arg[k])
                      /\ output_file(arg[k].name) = report_file}
        last == CHOOSE k \in writers : \A j \in writers : j <= k
    IN analyze_credit_report(arg[last].content).val

\* one entry for each of the reports whose analysis succeeds, in order
RECURSIVE SucceededResults(_, _)
SucceededResults(name, reports) ==
    IF reports = <<>> THEN <<>>
    ELSE LET stats == Analyze(name, ReportData(Head(reports).val))
         IN (IF IsRaise(stats) THEN <<>>
             ELSE << [ customer_id |-> customer_id(Head(reports).val),
                       stats |-> stats ] >>)
            \o SucceededResults(name, Tail(reports))

\* a failure on one file leaves the entries of the other files as they are
FailuresConfined ==
    call = "main" =>
        /\ pc = "ready" =>
              processed_files = SucceededOutputs(SubSeq(arg, 1, position))
        /\ pc \in {"run_analysis", "done"} =>
              /\ ret = List(SucceededOutputs(arg))
              /\ \A k \in 1..Len(ret.val) : ret.val[k] # None
              /\ \A k \in 1..Len(written) :
                    /\ written[k].analysis_name = AnalysisNames[k]
                    /\ written[k].results = SucceededResults(AnalysisNames[k], ret.val)
        /\ pc = "run_analysis" =>
              results = SucceededResults(analysis_name, SubSeq(ret.val, 1, position))
        /\ pc = "done" => Len(written) = Len(AnalysisNames)

\* whatever happens to a file, the loop goes on to the file after it
NextFileIsProcessed ==
    call = "main" =>
        /\ (pc = "ready" /\ position < Len(arg)) =>
              (pc' = "ready" /\ position' = position + 1)
        /\ (pc = "run_analysis" /\ position < Len(ret.val)) =>
              /\ pc' = "run_analysis"
              /\ position' = position + 1
              /\ analysis_name' = analysis_name

\* C11: a failure while processing one file (ParseError or an exception of
\* the projection in clean_credit_reports, an exception of one analysis of
\* one report in run_analysis) is confined to that file: every later file
\* is still processed, the list clean_credit_reports returns holds exactly
\* the output files of the inputs that succeeded, in iteration order and
\* without None, and the results of each analysis hold exactly the reports
\* whose analysis succeeded.
C11_PerFileIsolation ==
    /\ []FailuresConfined
    /\ [][NextFileIsProcessed]_vars

\* sys.stdout encodes the name of every input file
NamesEncoded == \A k \in 1..Len(arg) : Encodes(stdout, arg[k].name)

\* the isolation that holds: of the batches whose file names sys.stdout
\* encodes
IsolationOfEncodedNames ==
    /\ [](NamesEncoded => FailuresConfined)
    /\ [][NamesEncoded => NextFileIsProcessed]_vars

\* the first of two files does not parse and its name is encoded, the
\* second is processed and is in the returned list; its DPD analysis fails
\* and its disbursement analysis is in the results
IsolatedFailure ==
    /\ pc = "done"
    /\ call = "main"
    /\ Len(arg) = 2
    /\ arg[1].content = Raise("ParseError")
    /\ ret = List(<<Str(output_file(arg[2].name))>>)
    /\ written[1].results = <<>>
    /\ Len(written[3].results) = 1

\* sys.stdout has the strict handler and ASCII only, the first of two
\* files does not parse and its name is not ASCII: the second, a report
\* that projects, is not processed
BatchAborted ==
    /\ pc = "failed"
    /\ stdout = [encoding |-> "ascii", errors |-> "strict"]
    /\ call = "main"
    /\ Len(arg) = 2
    /\ position = 0
    /\ arg[1].content = Raise("ParseError")
    /\ Projects(arg[2])

====
